---- MODULE Spec2Model ----
(***************************************************************************)
(* Gold trading bot: the execution ledger (ExecutionSimulator), the seeded  *)
(* price engine (LivePriceEngine), the decision engine (AIDecisionEngine)   *)
(* and the slot-aligned orchestrator (useTradingBot).                       *)
(*                                                                          *)
(* Numbers are fixed point: a price is a multiple of 1/PriceScale dollar,   *)
(* a quantity a multiple of 1/QtyScale ounce, money a multiple of           *)
(* 1/MoneyScale dollar.  With these scales cost and fee are exact.          *)
(* Times are milliseconds counted from Epoch, an instant that is a whole    *)
(* number of minutes, so that flooring to a second, a slot or a minute      *)
(* commutes with the shift.                                                 *)
(***************************************************************************)
EXTENDS Integers, Sequences, FiniteSets, TLC

VARIABLES
    now,                   \* the wall clock, Date.now(), in ms since Epoch
    accountState,          \* ExecutionSimulator.accountState
    tradeCounter,          \* ExecutionSimulator.tradeCounter
    priceEngine,           \* the LivePriceEngine of the session
    priceEngine2,          \* a second, independent LivePriceEngine
    aiEngine,              \* the AIDecisionEngine of the session
    state,                 \* useTradingBot: the published TradingBotState
    lastProcessedSlotRef,  \* useTradingBot: lastProcessedSlotRef.current
    timers,                \* the pending timers: name -> Undefined or Some(due time)
    ledgerCall,            \* history: the executeBuy/executeSell call of the last step
    decidedSlots,          \* history: the slots whose decision logic has run
    lastEvent,             \* history: the handler that ran in the last step
    functionCall           \* a call of a pure function: its arguments, then its result

ledgerVars == <<accountState, tradeCounter>>
sessionVars == <<priceEngine, aiEngine, state, lastProcessedSlotRef, timers, decidedSlots>>
vars == <<now, accountState, tradeCounter, priceEngine, priceEngine2, aiEngine, state,
          lastProcessedSlotRef, timers, ledgerCall, decidedSlots, lastEvent, functionCall>>

----------------------------------------------------------------------------
(* Representation of the number type *)

PriceScale == 5
QtyScale == 100
MoneyScale == 1000000

Dollars(n) == n * PriceScale
Money(n) == n * MoneyScale

\* price * quantity, in money units
Times(price, quantity) == price * quantity * (MoneyScale \div (PriceScale * QtyScale))

Max(a, b) == IF a >= b THEN a ELSE b
Min(a, b) == IF a <= b THEN a ELSE b
Floor(t, interval) == (t \div interval) * interval

\* an optional argument: undefined, or a value
Undefined == <<>>
Some(v) == <<v>>
OrElse(arg, default) == IF arg = Undefined THEN default ELSE arg[1]

\* the null result of a ledger operation
Null == [null |-> TRUE]

----------------------------------------------------------------------------
(* SeededRandom: Mulberry32 on 32-bit words.  A word is <<hi, lo>>, two     *)
(* 16-bit halves; all arithmetic is modulo 2^32 as ToInt32/ToUint32 make it *)

HALF == 65536
BYTE == 256

ToWord(n) == <<(n \div HALF) % HALF, n % HALF>>

RECURSIVE Xor16(_, _, _)
Xor16(x, y, bits) ==
    IF bits = 0 THEN 0
    ELSE ((x + y) % 2) + 2 * Xor16(x \div 2, y \div 2, bits - 1)

RECURSIVE Or16(_, _, _)
Or16(x, y, bits) ==
    IF bits = 0 THEN 0
    ELSE Max(x % 2, y % 2) + 2 * Or16(x \div 2, y \div 2, bits - 1)

RECURSIVE Pow2(_)
Pow2(k) == IF k = 0 THEN 1 ELSE 2 * Pow2(k - 1)

\* a ^ b
Xor32(a, b) == <<Xor16(a[1], b[1], 16), Xor16(a[2], b[2], 16)>>
\* a | c, for a constant c < 2^16
OrLow(a, c) == <<a[1], Or16(a[2], c, 16)>>
\* a >>> k, for 0 < k < 16
Shr32(a, k) == <<a[1] \div Pow2(k), (a[1] % Pow2(k)) * Pow2(16 - k) + (a[2] \div Pow2(k))>>
\* a + b
Add32(a, b) ==
    LET lo == a[2] + b[2]
    IN <<(a[1] + b[1] + (lo \div HALF)) % HALF, lo % HALF>>
\* (x * y) mod 2^16, for 16-bit x and y
MulMod16(x, y) == ((x % BYTE) * y + (((x \div BYTE) * y) % BYTE) * BYTE) % HALF
\* Math.imul(a, b)
Imul(a, b) ==
    LET p0 == (a[2] % BYTE) * b[2]
        p1 == (a[2] \div BYTE) * b[2]
        lo == (p0 % HALF) + (p1 % BYTE) * BYTE
        hi == (p0 \div HALF) + (p1 \div BYTE) + (lo \div HALF)
              + MulMod16(a[1], b[2]) + MulMod16(b[1], a[2])
    IN <<hi % HALF, lo % HALF>>

MULBERRY_INCREMENT == <<27947, 31221>>      \* 0x6d2b79f5

\* the three mixing statements of next(), each on the t the one before left
Mix15(t) == Imul(Xor32(t, Shr32(t, 15)), OrLow(t, 1))
Mix7(t) == Xor32(t, Add32(t, Imul(Xor32(t, Shr32(t, 7)), OrLow(t, 61))))
Mix14(t) == Xor32(t, Shr32(t, 14))

\* next() once this.seed += 0x6d2b79f5 has made the seed s
NextFrom(s) == [seed |-> s, value |-> Mix14(Mix7(Mix15(s)))]

\* SeededRandom.next() on a generator whose seed is the word seed: the new seed
\* and the value returned, as the 32-bit numerator of value / 2^32
SeededRandomNext(seed) == NextFrom(Add32(seed, MULBERRY_INCREMENT))

RECURSIVE Draws(_, _)
\* the value r of one next(), then the n - 1 values after it
DrawsAfter(r, n) == <<r.value[1]>> \o Draws(r.seed, n - 1)

\* the first n values of new SeededRandom(seed), each as its leading 16 bits:
\* Draws(seed, n)[k] / 65536 approximates the k-th next() from below
Draws(seed, n) == IF n = 0 THEN <<>> ELSE DrawsAfter(SeededRandomNext(seed), n)

\* next() - 0.5, in 1/65536
Centered(r16) == r16 - (HALF \div 2)

----------------------------------------------------------------------------
(* ExecutionSimulator *)

TRADING_FEE_DIVISOR == 2000       \* TRADING_FEE = 0.0005 = 1/2000
DEFAULT_POSITION_SIZE == 2        \* 0.02 oz
HISTORICAL_QTY == 15              \* 0.15 oz
BASE_PRICE_DOLLARS == 5094
ONE_MINUTE == 60000

FeeOf(amount) == amount \div TRADING_FEE_DIVISOR

NoPosition == [type |-> "NONE", quantity |-> 0, entryPrice |-> 0, entryTime |-> 0]

\* faulty variant: the incremented counter is formatted but not stored
generateTradeIdCounterNotStored(counter, timestamp, type) ==
    [counter |-> counter, id |-> <<timestamp, type, counter + 1>>]

\* generateTradeId: increments the counter, then formats (timestamp, type, counter)
generateTradeId(counter, timestamp, type) ==
    [counter |-> counter + 1, id |-> <<timestamp, type, counter + 1>>]

\* The three historical round trips of initializeHistoricalTrades
HistoricalTrades(clk) ==
    LET basePrice == Dollars(BASE_PRICE_DOLLARS)
        currentMinute == Floor(clk, ONE_MINUTE)
    IN << [buyPrice |-> basePrice - Dollars(58), sellPrice |-> basePrice - Dollars(5),
           buyTime |-> currentMinute - 6 * ONE_MINUTE, sellTime |-> currentMinute - 5 * ONE_MINUTE],
          [buyPrice |-> basePrice - Dollars(52), sellPrice |-> basePrice - Dollars(1),
           buyTime |-> currentMinute - 4 * ONE_MINUTE, sellTime |-> currentMinute - 3 * ONE_MINUTE],
          [buyPrice |-> basePrice - Dollars(50), sellPrice |-> basePrice + Dollars(1),
           buyTime |-> currentMinute - 2 * ONE_MINUTE, sellTime |-> currentMinute - 1 * ONE_MINUTE] >>

RECURSIVE SeedHistorical(_, _, _, _, _)
\* the loop of initializeHistoricalTrades over historicalTrades[i..]
SeedHistorical(hist, i, trades, counter, totalProfit) ==
    IF i > Len(hist) THEN [trades |-> trades, counter |-> counter, totalProfit |-> totalProfit]
    ELSE LET trade == hist[i]
             buyCost == Times(trade.buyPrice, HISTORICAL_QTY)
             buyFee == FeeOf(buyCost)
             buyId == generateTradeId(counter, trade.buyTime, "BUY")
             buyTrade == [id |-> buyId.id, type |-> "BUY", price |-> trade.buyPrice,
                          quantity |-> HISTORICAL_QTY, timestamp |-> trade.buyTime, fee |-> buyFee]
             sellProceeds == Times(trade.sellPrice, HISTORICAL_QTY)
             sellFee == FeeOf(sellProceeds)
             netSellProceeds == sellProceeds - sellFee
             tradePnL == netSellProceeds - buyCost
             sellId == generateTradeId(buyId.counter, trade.sellTime, "SELL")
             sellTrade == [id |-> sellId.id, type |-> "SELL", price |-> trade.sellPrice,
                           quantity |-> HISTORICAL_QTY, timestamp |-> trade.sellTime, fee |-> sellFee]
         IN SeedHistorical(hist, i + 1, trades \o <<buyTrade, sellTrade>>, sellId.counter,
                           totalProfit + tradePnL)

\* new ExecutionSimulator(initialBalance), constructed when the clock reads clk
NewExecutionSimulator(initialBalance, clk) ==
    LET seeded == SeedHistorical(HistoricalTrades(clk), 1, <<>>, 0, 0)
    IN [accountState |-> [balance |-> initialBalance + seeded.totalProfit,
                          position |-> NoPosition,
                          realizedPnL |-> seeded.totalProfit,
                          trades |-> seeded.trades],
        tradeCounter |-> seeded.counter]

\* faulty variant: the trade id is drawn before the guards, so a rejection advances the counter
RejectedAfterId(st) == [st EXCEPT !.result = Null, !.tradeCounter = @ + 1]

\* "return null": the ledger is left as it was
Rejected(st) == [st EXCEPT !.result = Null]

\* faulty variants: a guard that is missing
NoFundsCheck(balance, totalCost) == FALSE
NoOpenCheck(position) == FALSE
NoFlatCheck(position) == FALSE
NoOverSellCheck(qty, position) == FALSE

\* the four guards of executeBuy and executeSell
InsufficientFunds(balance, totalCost) == balance < totalCost
PositionAlreadyOpen(position) == position.type = "LONG"
NoOpenPosition(position) == position.type = "NONE"
OverSellQuantity(qty, position) == qty > position.quantity

\* the position executeBuy opens
OpenedPosition(qty, price, tradeTime) ==
    [type |-> "LONG", quantity |-> qty, entryPrice |-> price, entryTime |-> tradeTime]

\* faulty variant: every sell closes the position
AlwaysClosed(position, qty) == NoPosition

\* the position executeSell leaves: closed, or partially closed
PositionAfterSell(position, qty) ==
    IF qty >= position.quantity THEN NoPosition
    ELSE [position EXCEPT !.quantity = position.quantity - qty]

\* executeBuy(price, quantity?, timestamp?) on ledger st, the clock reading clk
executeBuy(st, price, quantity, timestamp, clk) ==
    LET acc == st.accountState
        qty == OrElse(quantity, DEFAULT_POSITION_SIZE)
        cost == Times(price, qty)
        fee == FeeOf(cost)
        totalCost == cost + fee
        tradeTime == OrElse(timestamp, clk)
        newId == generateTradeId(st.tradeCounter, tradeTime, "BUY")
        trade == [id |-> newId.id, type |-> "BUY", price |-> price, quantity |-> qty,
                  timestamp |-> tradeTime, fee |-> fee]
    IN IF InsufficientFunds(acc.balance, totalCost) THEN Rejected(st)
       ELSE IF PositionAlreadyOpen(acc.position) THEN Rejected(st)
       ELSE [accountState |-> [acc EXCEPT !.balance = acc.balance - totalCost,
                                          !.position = OpenedPosition(qty, price, tradeTime),
                                          !.trades = Append(acc.trades, trade)],
             tradeCounter |-> newId.counter,
             result |-> trade]

\* executeSell(price, quantity?, timestamp?) on ledger st, the clock reading clk
executeSell(st, price, quantity, timestamp, clk) ==
    LET acc == st.accountState
        qty == OrElse(quantity, acc.position.quantity)
        proceeds == Times(price, qty)
        fee == FeeOf(proceeds)
        netProceeds == proceeds - fee
        costBasis == Times(acc.position.entryPrice, qty)
        realizedPnL == netProceeds - costBasis
        tradeTime == OrElse(timestamp, clk)
        newId == generateTradeId(st.tradeCounter, tradeTime, "SELL")
        trade == [id |-> newId.id, type |-> "SELL", price |-> price, quantity |-> qty,
                  timestamp |-> tradeTime, fee |-> fee]
    IN IF NoOpenPosition(acc.position) THEN Rejected(st)
       ELSE IF OverSellQuantity(qty, acc.position) THEN Rejected(st)
       ELSE [accountState |-> [balance |-> acc.balance + netProceeds,
                               position |-> PositionAfterSell(acc.position, qty),
                               realizedPnL |-> acc.realizedPnL + realizedPnL,
                               trades |-> Append(acc.trades, trade)],
             tradeCounter |-> newId.counter,
             result |-> trade]

\* faulty variant: the value of the position, its cost not subtracted
CurrentValueOnly(acc, currentPrice) ==
    IF acc.position.type = "NONE" THEN 0
    ELSE Times(currentPrice, acc.position.quantity)

\* getUnrealizedPnL(currentPrice)
getUnrealizedPnL(acc, currentPrice) ==
    IF acc.position.type = "NONE" THEN 0
    ELSE Times(currentPrice, acc.position.quantity)
         - Times(acc.position.entryPrice, acc.position.quantity)

\* getPosition(): a copy of the position record
getPosition(acc) == acc.position

\* getAccountState(): a copy of the record; its trades field stays the ledger's own
\* array, so what a holder reads there is the ledger's trades at the time of reading
getAccountState(acc) ==
    [balance |-> acc.balance, position |-> acc.position, realizedPnL |-> acc.realizedPnL]

\* the ledger object, as the operators above take it
Ledger == [accountState |-> accountState, tradeCounter |-> tradeCounter, result |-> Null]

NoCall == [op |-> "none"]
CallRecord(op, price, quantity, timestamp, clk, pre, r) ==
    [op |-> op, price |-> price, quantity |-> quantity, timestamp |-> timestamp, clock |-> clk,
     pre |-> [accountState |-> pre.accountState, tradeCounter |-> pre.tradeCounter],
     result |-> r.result]

----------------------------------------------------------------------------
(* LivePriceEngine.  Rates (trend, volatility, reversion) are multiples of  *)
(* 1/RateScale, the momentum a multiple of 1/MomentumScale.                 *)

EPOCH_SECONDS == 1800000000        \* Date.now() = 1000 * EPOCH_SECONDS + now
RateScale == 10000000
MomentumScale == 10000
VOLATILITY == 3000                 \* 0.0003
INITIAL_PRICE_DOLLARS == 5094
UPDATE_INTERVAL == 1000
HISTORY_CANDLES == 120
MAX_CANDLES == 500
MIN_PRICE_DOLLARS == 4800
MAX_PRICE_DOLLARS == 5400

Abs(x) == IF x < 0 THEN 0 - x ELSE x
\* x / d rounded to the nearest integer
DivRound(x, d) == (2 * x + d) \div (2 * d)
Clamp(lo, x, hi) == Max(lo, Min(hi, x))
ClampPrice(price) == Clamp(Dollars(MIN_PRICE_DOLLARS), price, Dollars(MAX_PRICE_DOLLARS))

\* the 32-bit seed that an absolute time in seconds, or in ms, makes
SecondSeed(t) == ToWord(EPOCH_SECONDS + (t \div 1000))
MsSeed(t) ==
    Add32(Imul(ToWord((EPOCH_SECONDS \div 60) + (t \div ONE_MINUTE)), ToWord(ONE_MINUTE)),
          ToWord(t % ONE_MINUTE))

\* price * rate
Scaled(price, rate) == DivRound(price * rate, RateScale)

\* faulty variant: the open of the candle is left unset
FlatButOpen(price) == [open |-> 0, high |-> price, low |-> price, close |-> price]

\* { open: price, high: price, low: price, close: price }
Flat(price) == [open |-> price, high |-> price, low |-> price, close |-> price]
PriceData(price, timestamp, ohlc) ==
    [price |-> price, timestamp |-> timestamp, open |-> ohlc.open, high |-> ohlc.high,
     low |-> ohlc.low, close |-> ohlc.close]

\* the body of the loop of initializeHistory for the minute timestamp, the candle
\* opening at price and r the values of its generator: the candle pushed, and the
\* price the next one opens at
CandleFrom(price, timestamp, r) ==
    LET volatilityForCandle == VOLATILITY + DivRound(VOLATILITY * 2 * r[1], HALF)
        change1 == Scaled(price, DivRound(Centered(r[2]) * 2 * volatilityForCandle, HALF))
        change2 == Scaled(price, DivRound(Centered(r[3]) * 2 * volatilityForCandle, HALF))
        change3 == Scaled(price, DivRound(Centered(r[4]) * 2 * volatilityForCandle, HALF))
        open == price
        close == open + change1
        high == Max(open, close) + DivRound(Abs(change2), 2)
        low == Min(open, close) - DivRound(Abs(change3), 2)
        trendChange == DivRound(Centered(r[5]) * (RateScale \div 1000), HALF)
    IN [candle |-> [price |-> close, timestamp |-> timestamp, open |-> open, high |-> high,
                    low |-> low, close |-> close],
        price |-> ClampPrice(close + Scaled(close, trendChange))]

\* the candle of the minute timestamp: new SeededRandom(timestamp)
CandleAt(price, timestamp) == CandleFrom(price, timestamp, Draws(MsSeed(timestamp), 5))

\* one iteration of the loop of initializeHistory: the candle of the minute
\* i minutes before clk, opened at price, and the price the next one opens at
HistoryCandle(price, i, clk) == CandleAt(price, Floor(clk - i * ONE_MINUTE, ONE_MINUTE))

\* the candles of the iterations older, then those of the iterations newer
Pushed(older, newer) == [candles |-> older.candles \o newer.candles, price |-> newer.price]
\* the one candle of iteration c
PushedOne(c) == [candles |-> <<c.candle>>, price |-> c.price]

RECURSIVE HistoryOver(_, _, _, _)
\* the iterations i = from - 1, ..., to that follow the iterations older
HistoryAfter(older, from, to, clk) == Pushed(older, HistoryOver(older.price, from - 1, to, clk))

\* the iterations i = from, from - 1, ..., to of the loop of initializeHistory,
\* entered with price: the candles they push and the price they leave
HistoryOver(price, from, to, clk) ==
    IF from < to THEN [candles |-> <<>>, price |-> price]
    ELSE IF from = to THEN PushedOne(HistoryCandle(price, from, clk))
    ELSE HistoryAfter(HistoryOver(price, from, ((from + to) \div 2) + 1, clk),
                      ((from + to) \div 2) + 1, to, clk)

\* the engine the constructor leaves, initializeHistory having made candles
EngineWith(initialPrice, clk, candles, last) ==
    [currentPrice |-> last,
     basePrice |-> initialPrice,
     trend |-> 0,
     momentum |-> 0,
     priceHistory |-> candles,
     currentOHLC |-> Flat(last),
     lastCandleTimestamp |-> Floor(clk, ONE_MINUTE),
     tickCount |-> 0]

\* "Set current price to last candle's close"
LastClose(candles, initialPrice) ==
    IF Len(candles) > 0 THEN candles[Len(candles)].close ELSE initialPrice

EngineOf(initialPrice, clk, candles) ==
    EngineWith(initialPrice, clk, candles, LastClose(candles, initialPrice))

\* new LivePriceEngine({initialPrice, updateInterval}): the constructor reads the
\* clock (clk), then initializeHistory reads it again (clk2)
NewLivePriceEngine(initialPrice, clk, clk2) ==
    EngineOf(initialPrice, clk, HistoryOver(initialPrice, HISTORY_CANDLES, 1, clk2).candles)

\* the body of generateNextPrice, r the values of new SeededRandom(currentSecond)
NextPriceFrom(e, r) ==
    LET trend1 == e.trend + DivRound(Centered(r[1]) * (RateScale \div 10000), HALF)
        trend2 == DivRound(trend1 * 99, 100)
        trend == Clamp(0 - (RateScale \div 1000), trend2, RateScale \div 1000)
        momentum == DivRound(e.momentum * 8, 10)
                    + DivRound(Centered(r[2]) * (MomentumScale \div 5), HALF)
        spike == r[3] * 100 < 2 * HALF
        deviation == e.currentPrice - e.basePrice
        reversionForce == DivRound((0 - deviation) * (RateScale \div 10000), e.basePrice)
        randomComponent == IF spike THEN DivRound(momentum * 3 * 25, 100)
                           ELSE DivRound(momentum * 3, 10)
        change == Scaled(e.currentPrice, trend + randomComponent + reversionForce)
    IN [engine |-> [e EXCEPT !.trend = trend, !.momentum = momentum],
        price |-> ClampPrice(e.currentPrice + change)]

\* generateNextPrice(): the engine with trend and momentum updated, and the price
generateNextPrice(e, clk) == NextPriceFrom(e, Draws(SecondSeed(clk), 3))

\* what updatePrice emits to the subscribers once it has left the engine after
Emitted(after, isNewCandle) ==
    [engine |-> after,
     priceData |-> PriceData(after.currentPrice, after.lastCandleTimestamp, after.currentOHLC),
     isNewCandle |-> isNewCandle]

\* faulty variant: the candle just pushed is the one removed
PoppedOver(candles, max) ==
    IF Len(candles) > max THEN SubSeq(candles, 1, Len(candles) - 1) ELSE candles

\* if (candles.length > max) candles.shift()
ShiftedOver(candles, max) == IF Len(candles) > max THEN Tail(candles) ELSE candles

\* the body of updatePrice, generateNextPrice having left the engine g and the
\* price newPrice; e is the engine as the call found it
UpdatedWith(e, g, newPrice, clk) ==
    LET ohlc == [e.currentOHLC EXCEPT !.high = Max(@, newPrice),
                                      !.low = Min(@, newPrice),
                                      !.close = newPrice]
        currentMinute == Floor(clk, ONE_MINUTE)
        isNewCandle == currentMinute > e.lastCandleTimestamp
        finalizedCandle == PriceData(newPrice, e.lastCandleTimestamp, ohlc)
        kept == ShiftedOver(Append(e.priceHistory, finalizedCandle), MAX_CANDLES)
    IN IF isNewCandle
       THEN Emitted([g EXCEPT !.priceHistory = kept,
                              !.currentOHLC = Flat(newPrice),
                              !.lastCandleTimestamp = currentMinute,
                              !.currentPrice = newPrice,
                              !.tickCount = @ + 1],
                    TRUE)
       ELSE Emitted([g EXCEPT !.currentOHLC = ohlc,
                              !.currentPrice = newPrice,
                              !.tickCount = @ + 1],
                    FALSE)

Updated(e, g, clk) == UpdatedWith(e, g.engine, g.price, clk)

\* updatePrice(): the engine after the tick, and what it emits to its subscribers
updatePrice(e, clk) == Updated(e, generateNextPrice(e, clk), clk)

\* getLatestOHLC(): what a query of the engine reports
getLatestOHLC(e) == PriceData(e.currentPrice, e.lastCandleTimestamp, e.currentOHLC)

----------------------------------------------------------------------------
(* Indicators.  An average is a multiple of 1/IndicatorScale of a price     *)
(* unit, the RSI a multiple of 1/RsiScale.  null is Undefined.              *)

IndicatorScale == 100
RsiScale == 100

RECURSIVE SumSeq(_, _, _)
\* s[from] + ... + s[to]
SumSeq(s, from, to) ==
    IF from > to THEN 0
    ELSE IF from = to THEN s[from]
    ELSE LET mid == (from + to) \div 2
         IN SumSeq(s, from, mid) + SumSeq(s, mid + 1, to)

RECURSIVE EmaOver(_, _, _, _, _)
\* the loop of calculateEMA over prices[from..to], entered with ema; the first
\* half of the iterations is evaluated before the second half is entered
EmaOver(prices, period, from, to, ema) ==
    IF from > to THEN ema
    ELSE IF from = to
    THEN DivRound((prices[from] * IndicatorScale - ema) * 2, period + 1) + ema
    ELSE LET mid == (from + to) \div 2
             first == EmaOver(prices, period, from, mid, ema)
         IN IF first = first THEN EmaOver(prices, period, mid + 1, to, first) ELSE first

\* faulty variant: the average is seeded with the first price, not with the mean
EmaSeededWithFirst(prices, period) ==
    IF Len(prices) < period THEN Undefined
    ELSE Some(EmaOver(prices, period, period + 1, Len(prices), prices[1] * IndicatorScale))

calculateEMA(prices, period) ==
    IF Len(prices) < period THEN Undefined
    ELSE Some(EmaOver(prices, period, period + 1, Len(prices),
                      DivRound(SumSeq(prices, 1, period) * IndicatorScale, period)))

RECURSIVE WilderOver(_, _, _, _, _)
\* Wilder smoothing: the loop of calculateRSI over v[from..to], entered with avg;
\* the first half of the iterations is evaluated before the second half is entered
WilderOver(v, period, from, to, avg) ==
    IF from > to THEN avg
    ELSE IF from = to
    THEN DivRound(avg * (period - 1) + v[from] * IndicatorScale, period)
    ELSE LET mid == (from + to) \div 2
             first == WilderOver(v, period, from, mid, avg)
         IN IF first = first THEN WilderOver(v, period, mid + 1, to, first) ELSE first

\* faulty variant: the losses are not looked at
RsiOfGainsOnly(prices, period) ==
    IF Len(prices) < period + 1 THEN Undefined ELSE Some(100 * RsiScale)

calculateRSI(prices, period) ==
    IF Len(prices) < period + 1 THEN Undefined
    ELSE LET changes == [i \in 1..(Len(prices) - 1) |-> prices[i + 1] - prices[i]]
             gains == [i \in 1..Len(changes) |-> IF changes[i] > 0 THEN changes[i] ELSE 0]
             losses == [i \in 1..Len(changes) |-> IF changes[i] < 0 THEN Abs(changes[i]) ELSE 0]
             avgGain == WilderOver(gains, period, period + 1, Len(gains),
                                   DivRound(SumSeq(gains, 1, period) * IndicatorScale, period))
             avgLoss == WilderOver(losses, period, period + 1, Len(losses),
                                   DivRound(SumSeq(losses, 1, period) * IndicatorScale, period))
         IN IF avgLoss = 0 THEN Some(100 * RsiScale)
            ELSE Some(100 * RsiScale - DivRound(100 * RsiScale * avgLoss, avgLoss + avgGain))

NoIndicators == [ema20 |-> Undefined, ema50 |-> Undefined, rsi14 |-> Undefined]

calculateIndicators(priceHistory) ==
    IF Len(priceHistory) = 0 THEN NoIndicators
    ELSE LET closes == [i \in 1..Len(priceHistory) |-> priceHistory[i].close]
         IN [ema20 |-> calculateEMA(closes, 20),
             ema50 |-> calculateEMA(closes, 50),
             rsi14 |-> calculateRSI(closes, 14)]

----------------------------------------------------------------------------
(* AIDecisionEngine.  A confidence is in hundredths; a reason is the name   *)
(* of the rule that produced it.                                            *)

ZERO_TIME == -1000000000           \* the time 0: before every instant of a session
MIN_TIME_BETWEEN_TRADES == 8000
DECISION_WINDOW == 3000
STOP_LOSS_DOLLARS == 15
MIN_TICKS == 10
RSI_OVERSOLD == 35
MIN_STREAK == 2

NewAIDecisionEngine ==
    [lastPrice |-> 0, priceDirection |-> 0, tickCount |-> 0, lastTradeTime |-> ZERO_TIME,
     consecutiveMoves |-> 0]

updateMomentum(ai, currentPrice) ==
    LET direction == IF currentPrice > ai.lastPrice THEN 1
                     ELSE IF currentPrice < ai.lastPrice THEN -1 ELSE 0
        moved == IF ai.lastPrice > 0
                 THEN IF direction = ai.priceDirection
                      THEN [ai EXCEPT !.consecutiveMoves = @ + 1]
                      ELSE [ai EXCEPT !.consecutiveMoves = 1, !.priceDirection = direction]
                 ELSE ai
    IN [moved EXCEPT !.lastPrice = currentPrice, !.tickCount = @ + 1]

\* the seed of new SeededRandom(Math.floor(now / 3000))
WindowSeed(clk) == ToWord((EPOCH_SECONDS \div 3) + (clk \div DECISION_WINDOW))

\* base + next() * span, in hundredths: Math.round(confidence * 100)
Confidence(base, span, r16) == base + DivRound(span * r16, HALF)

Decision(action, confidence, reason) ==
    [action |-> action, confidence |-> confidence, reason |-> reason]

\* faulty variant: the time of the trade is not kept
NoTradeTime(clk) == ZERO_TIME

\* the time makeDecision stores as lastTradeTime in a BUY or SELL branch
TradeTimeOf(clk) == clk

\* faulty variant: a profit target between $2 and $14
WideProfitTarget(r16) == Money(2) + DivRound(12000 * r16, HALF) * (MoneyScale \div 1000)

\* faulty variant: the target is a loss between $2 and $8
NegatedProfitTarget(r16) == 0 - Money(2) - DivRound(6000 * r16, HALF) * (MoneyScale \div 1000)

\* 2 + rng.next() * 6, to the thousandth of a dollar
ProfitTarget(r16) == Money(2) + DivRound(6000 * r16, HALF) * (MoneyScale \div 1000)

\* faulty variant: no test for null, which JavaScript compares as 0
NullIsOversold(rsi14) == rsi14 = Undefined \/ rsi14[1] < RSI_OVERSOLD * RsiScale

\* rsi14 !== null && rsi14 < 35
IsOversold(rsi14) == rsi14 # Undefined /\ rsi14[1] < RSI_OVERSOLD * RsiScale

\* faulty variant: the number of ticks is not looked at
IsOpportunityAtAnyTick(r16, tickCount) == r16 * 10 > 7 * HALF

\* rng.next() > 0.7 && this.tickCount > 10
IsOpportunity(r16, tickCount) == r16 * 10 > 7 * HALF /\ tickCount > MIN_TICKS

\* the body of makeDecision after updateMomentum has left the engine m, r the
\* values of new SeededRandom(timeWindow)
DecisionFrom(m, inputs, clk, r) ==
    LET timeSinceLastTrade == clk - m.lastTradeTime
        canTrade == timeSinceLastTrade >= MIN_TIME_BETWEEN_TRADES
        hasPosition == inputs.position = "LONG"
        ema20 == inputs.indicators.ema20
        ema50 == inputs.indicators.ema50
        rsi14 == inputs.indicators.rsi14
        profitTarget == ProfitTarget(r[1])
        traded == [m EXCEPT !.lastTradeTime = TradeTimeOf(clk)]
    IN IF hasPosition
       THEN IF inputs.unrealizedPnL >= profitTarget
            THEN [engine |-> traded,
                  decision |-> Decision("SELL", Confidence(88, 10, r[2]), "take_profit")]
            ELSE IF inputs.unrealizedPnL < 0 - Money(STOP_LOSS_DOLLARS)
            THEN [engine |-> traded, decision |-> Decision("SELL", 95, "stop_loss")]
            ELSE [engine |-> m, decision |-> Decision("HOLD", 70, "holding")]
       ELSE IF ~canTrade
            THEN [engine |-> m, decision |-> Decision("HOLD", 50, "cooldown")]
            ELSE IF m.priceDirection = 1 /\ m.consecutiveMoves >= MIN_STREAK
            THEN [engine |-> traded,
                  decision |-> Decision("BUY", Confidence(82, 15, r[1]), "momentum")]
            ELSE IF IsOversold(rsi14)
            THEN [engine |-> traded,
                  decision |-> Decision("BUY", Confidence(78, 12, r[1]), "rsi_oversold")]
            ELSE IF /\ ema20 # Undefined
                    /\ ema50 # Undefined
                    /\ inputs.currentPrice * IndicatorScale > ema20[1]
                    /\ ema20[1] > ema50[1]
            THEN [engine |-> traded,
                  decision |-> Decision("BUY", Confidence(75, 15, r[1]), "ema_trend")]
            ELSE IF IsOpportunity(r[1], m.tickCount)
            THEN [engine |-> traded,
                  decision |-> Decision("BUY", Confidence(68, 20, r[2]), "opportunistic")]
            ELSE [engine |-> m, decision |-> Decision("HOLD", 60, "scanning")]

\* makeDecision(inputs), the clock reading clk: the engine after it, and the decision
makeDecision(ai, inputs, clk) ==
    DecisionFrom(updateMomentum(ai, inputs.currentPrice), inputs, clk, Draws(WindowSeed(clk), 2))

----------------------------------------------------------------------------
(* The ledger under arbitrary callers *)

MaxTrades == 3          \* executed trades per ledger, beyond the seeded ones
MaxClock == 6000        \* the ledger's callers stop reading the clock after this
INITIAL_BALANCE == 200
SEEDED_TRADES == 2 * Len(HistoricalTrades(0))   \* a BUY and a SELL per round trip

PriceArgs == {Dollars(5000), Dollars(5100)}
QuantityArgs == {Undefined, Some(0), Some(1), Some(5)}
TimestampArgs == {Undefined, Some(3000)}
ClockStep == DECISION_WINDOW

\* no engine, no hook: the ledger alone
NotConstructed == [constructed |-> FALSE]
NoTimers == [price |-> Undefined, price2 |-> Undefined, alignment |-> Undefined,
             decision |-> Undefined]
NoSession ==
    /\ priceEngine = NotConstructed
    /\ aiEngine = NotConstructed
    /\ state = NotConstructed
    /\ lastProcessedSlotRef = ZERO_TIME
    /\ timers = NoTimers
    /\ decidedSlots = <<>>

LedgerInit ==
    /\ now = 1500
    /\ LET l == NewExecutionSimulator(Money(INITIAL_BALANCE), now)
       IN /\ accountState = l.accountState
          /\ tradeCounter = l.tradeCounter
    /\ ledgerCall = NoCall
    /\ lastEvent = "new"
    /\ priceEngine2 = NotConstructed
    /\ functionCall = NoCall
    /\ NoSession

\* a caller's executeBuy, its arguments drawn from the given sets, on a ledger
\* that has executed fewer than cap trades
Buy(prices, quantities, timestamps, cap) ==
    /\ Len(accountState.trades) < SEEDED_TRADES + cap
    /\ \E price \in prices, quantity \in quantities, timestamp \in timestamps :
         LET r == executeBuy(Ledger, price, quantity, timestamp, now)
         IN /\ accountState' = r.accountState
            /\ tradeCounter' = r.tradeCounter
            /\ ledgerCall' = CallRecord("executeBuy", price, quantity, timestamp, now, Ledger, r)
    /\ lastEvent' = "executeBuy"
    /\ UNCHANGED <<now, priceEngine2, functionCall, sessionVars>>

\* a caller's executeSell
Sell(prices, quantities, timestamps, cap) ==
    /\ Len(accountState.trades) < SEEDED_TRADES + cap
    /\ \E price \in prices, quantity \in quantities, timestamp \in timestamps :
         LET r == executeSell(Ledger, price, quantity, timestamp, now)
         IN /\ accountState' = r.accountState
            /\ tradeCounter' = r.tradeCounter
            /\ ledgerCall' = CallRecord("executeSell", price, quantity, timestamp, now, Ledger, r)
    /\ lastEvent' = "executeSell"
    /\ UNCHANGED <<now, priceEngine2, functionCall, sessionVars>>

LedgerBuy == Buy(PriceArgs, QuantityArgs, TimestampArgs, MaxTrades)

LedgerSell == Sell(PriceArgs, QuantityArgs, TimestampArgs, MaxTrades)

LedgerTime ==
    /\ now + ClockStep <= MaxClock
    /\ now' = now + ClockStep
    /\ ledgerCall' = NoCall
    /\ lastEvent' = "clock"
    /\ UNCHANGED <<ledgerVars, priceEngine2, functionCall, sessionVars>>

LedgerNext == LedgerBuy \/ LedgerSell \/ LedgerTime

SpecLedger == LedgerInit /\ [][LedgerNext]_vars

----------------------------------------------------------------------------
(* The ledger under a caller that also passes negative quantities, reads    *)
(* the ledger and writes to the values the ledger returns                   *)

MaxCallerTrades == 2    \* trades in the history of the caller's ledger, beyond the seeded ones
SignedQuantityArgs == {Undefined, Some(1), Some(-5)}
WRITTEN_QUANTITY == 5   \* the quantity the caller writes into a position it holds

\* a caller's getUnrealizedPnL(currentPrice)
CallerReads ==
    /\ \E currentPrice \in PriceArgs :
         ledgerCall' = [op |-> "getUnrealizedPnL", price |-> currentPrice,
                        pre |-> [accountState |-> accountState, tradeCounter |-> tradeCounter],
                        result |-> getUnrealizedPnL(accountState, currentPrice)]
    /\ lastEvent' = "getUnrealizedPnL"
    /\ UNCHANGED <<now, ledgerVars, priceEngine2, functionCall, sessionVars>>

\* the fields of the object a getter returns that are objects of the ledger
\* itself: { ...this.accountState } copies the references of position and
\* trades; { ...this.accountState.position } has numbers and a string only
SharedFields(getter) ==
    IF getter = "getAccountState" THEN {"position", "trades"} ELSE {}

\* the writes of the caller: the getter called, and the path written from
\* the object it returned
CallerPaths ==
    { <<"getAccountState", <<"balance">>>>,
      <<"getAccountState", <<"position">>>>,
      <<"getAccountState", <<"position", "quantity">>>>,
      <<"getAccountState", <<"trades", "push">>>>,
      <<"getPosition", <<"quantity">>>> }

\* the ledger's account after the caller has written at path of the object
\* returned by getter: a write lands in the ledger when it goes through a
\* shared field
Written(acc, getter, path) ==
    IF Len(path) < 2 \/ path[1] \notin SharedFields(getter) THEN acc
    ELSE IF path[1] = "position" THEN [acc EXCEPT !.position.quantity = WRITTEN_QUANTITY]
    ELSE [acc EXCEPT !.trades = Append(@, acc.trades[1])]

\* the caller calls a getter and writes to what it returned
CallerWrites ==
    /\ Len(accountState.trades) < SEEDED_TRADES + MaxCallerTrades
    /\ \E w \in CallerPaths :
         /\ accountState' = Written(accountState, w[1], w[2])
         /\ ledgerCall' = [op |-> "write", getter |-> w[1], path |-> w[2],
                           pre |-> [accountState |-> accountState,
                                    tradeCounter |-> tradeCounter]]
    /\ lastEvent' = "write"
    /\ UNCHANGED <<now, tradeCounter, priceEngine2, functionCall, sessionVars>>

CallerNext ==
    \/ Buy(PriceArgs, SignedQuantityArgs, {Undefined}, MaxCallerTrades)
    \/ Sell(PriceArgs, SignedQuantityArgs, {Undefined}, MaxCallerTrades)
    \/ CallerReads
    \/ CallerWrites

SpecCaller == LedgerInit /\ [][CallerNext]_vars

----------------------------------------------------------------------------
(* useTradingBot: the session.  Timers fire in the order they fall due, at  *)
(* their due time or late; an interval timer is re-armed either one period  *)
(* after the callback or on its original phase.                             *)

DECISION_INTERVAL == 3000
StepMs == UPDATE_INTERVAL \* the granularity of the clock: one price update
MaxLate == 2000          \* a timer fires at most this long after it is due
MaxTime == 64000         \* the clock stops here
StartTimes == {55000}

getNextAlignedTime(interval, clk) == ((clk + interval - 1) \div interval) * interval
getCurrentTimeSlot(interval, clk) == Floor(clk, interval)

\* array.slice(-n)
LastN(seq, n) == IF Len(seq) <= n THEN seq ELSE SubSeq(seq, Len(seq) - n + 1, Len(seq))

\* faulty variant: the subscriber publishes the price and drops the decision
OnPriceUpdateDroppingDecision(prev, priceData, isNewCandle, acc) ==
    [prev EXCEPT !.currentPrice = priceData.price, !.latestDecision = Null]

\* the subscriber of the hook: the state after setState((prev) => ...)
OnPriceUpdate(prev, priceData, isNewCandle, acc) ==
    LET n == Len(prev.priceHistory)
        lastCandle == [prev.priceHistory[n] EXCEPT !.price = priceData.price,
                                                   !.close = priceData.close,
                                                   !.high = Max(@, priceData.high),
                                                   !.low = Min(@, priceData.low)]
        updatedHistory == IF isNewCandle
                          THEN LastN(Append(prev.priceHistory, priceData), MAX_CANDLES)
                          ELSE IF n > 0 THEN [prev.priceHistory EXCEPT ![n] = lastCandle]
                          ELSE prev.priceHistory
        indicators == IF isNewCandle THEN calculateIndicators(updatedHistory)
                      ELSE prev.indicators
    IN [prev EXCEPT !.currentPrice = priceData.price,
                    !.priceHistory = updatedHistory,
                    !.indicators = indicators,
                    !.position = getPosition(acc),
                    !.unrealizedPnL = getUnrealizedPnL(acc, priceData.price),
                    !.isLoading = FALSE]

\* faulty variant: no guard: every callback runs the decision logic
NeverProcessed(currentSlot, lastSlot) == FALSE

\* "Skip if we already processed this slot"
AlreadyProcessed(currentSlot, lastSlot) == currentSlot <= lastSlot

\* faulty variant: no timestamp is passed, so the ledger reads the clock
NoTradeTimestamp(currentSlot) == Undefined

\* the timestamp argument makeDecision passes to executeBuy/executeSell
TradeTimestamp(currentSlot) == Some(currentSlot)

\* what makeDecision publishes and leaves behind: the decision d made, the
\* ledger call op returned r
Outcome(d, op, r, currentPrice, timestamp, clk) ==
    [aiEngine |-> d.engine,
     accountState |-> r.accountState,
     tradeCounter |-> r.tradeCounter,
     ledgerCall |-> IF op = "none" THEN NoCall
                    ELSE CallRecord(op, currentPrice, Undefined, timestamp, clk, Ledger, r),
     state |-> [state EXCEPT !.accountState = getAccountState(r.accountState),
                             !.position = getPosition(r.accountState),
                             !.unrealizedPnL = getUnrealizedPnL(r.accountState, currentPrice),
                             !.latestDecision = d.decision,
                             !.trades = IF r.result # Null THEN Append(@, r.result) ELSE @]]

\* "Execute trade if decision is BUY or SELL"
Executed(d, position, currentPrice, timestamp, clk) ==
    IF d.decision.action = "BUY" /\ position.type = "NONE"
    THEN Outcome(d, "executeBuy", executeBuy(Ledger, currentPrice, Undefined, timestamp, clk),
                 currentPrice, timestamp, clk)
    ELSE IF d.decision.action = "SELL" /\ position.type = "LONG"
    THEN Outcome(d, "executeSell", executeSell(Ledger, currentPrice, Undefined, timestamp, clk),
                 currentPrice, timestamp, clk)
    ELSE Outcome(d, "none", Ledger, currentPrice, timestamp, clk)

\* the inputs makeDecision gathers for the engine
DecisionInputs(currentPrice, position) ==
    [currentPrice |-> currentPrice,
     indicators |-> calculateIndicators(priceEngine.priceHistory),
     position |-> position.type,
     unrealizedPnL |-> getUnrealizedPnL(accountState, currentPrice),
     entryPrice |-> position.entryPrice]

\* the body of makeDecision after the guard, the clock reading clk: what it
\* leaves in the engine, the ledger and the published state
RunDecision(clk) ==
    Executed(makeDecision(aiEngine,
                          DecisionInputs(priceEngine.currentPrice, getPosition(accountState)),
                          clk),
             getPosition(accountState), priceEngine.currentPrice,
             TradeTimestamp(getCurrentTimeSlot(DECISION_INTERVAL, clk)), clk)

\* the decision logic has run for currentSlot and left r
Decided(currentSlot, r) ==
    /\ lastProcessedSlotRef' = currentSlot
    /\ aiEngine' = r.aiEngine
    /\ accountState' = r.accountState
    /\ tradeCounter' = r.tradeCounter
    /\ ledgerCall' = r.ledgerCall
    /\ state' = r.state
    /\ decidedSlots' = Append(decidedSlots, currentSlot)
    /\ lastEvent' = "makeDecision"

\* the callback returned at the guard
Skipped ==
    /\ ledgerCall' = NoCall
    /\ lastEvent' = "makeDecision: slot already processed"
    /\ UNCHANGED <<ledgerVars, aiEngine, state, lastProcessedSlotRef, decidedSlots>>

\* makeDecision(): one call of the timer callback
MakeDecision ==
    IF AlreadyProcessed(getCurrentTimeSlot(DECISION_INTERVAL, now), lastProcessedSlotRef)
    THEN Skipped
    ELSE Decided(getCurrentTimeSlot(DECISION_INTERVAL, now), RunDecision(now))

\* the effect of useTradingBot has made the engine e and the ledger l, the clock
\* reading clk
Mounted(clk, e, l) ==
    /\ now = clk
    /\ priceEngine = e
    /\ accountState = l.accountState
    /\ tradeCounter = l.tradeCounter
    /\ aiEngine = NewAIDecisionEngine
    /\ state = [currentPrice |-> e.currentPrice,
                priceHistory |-> e.priceHistory,
                indicators |-> calculateIndicators(e.priceHistory),
                accountState |-> getAccountState(l.accountState),
                position |-> getPosition(l.accountState),
                unrealizedPnL |-> getUnrealizedPnL(l.accountState, e.currentPrice),
                latestDecision |-> Null,
                trades |-> <<>>,
                isLoading |-> FALSE]
    /\ lastProcessedSlotRef = ZERO_TIME
    /\ timers = [NoTimers EXCEPT !.price = Some(clk + UPDATE_INTERVAL),
                                 !.alignment = Some(getNextAlignedTime(DECISION_INTERVAL, clk))]

\* the state after the effect of useTradingBot has run, the clock reading clk
Mount(clk) ==
    Mounted(clk, NewLivePriceEngine(Dollars(INITIAL_PRICE_DOLLARS), clk, clk),
            NewExecutionSimulator(Money(INITIAL_BALANCE), clk))

Init ==
    /\ \E clk \in StartTimes : Mount(clk)
    /\ priceEngine2 = NotConstructed
    /\ functionCall = NoCall
    /\ ledgerCall = NoCall
    /\ decidedSlots = <<>>
    /\ lastEvent = "mount"

Pending == {t \in DOMAIN timers : timers[t] # Undefined}
\* timer t is due, and no pending timer fell due before it
Due(t) ==
    /\ timers[t] # Undefined
    /\ timers[t][1] <= now
    /\ \A u \in Pending : timers[u][1] >= timers[t][1]

\* the due times an interval timer may get when its callback has run
Rearmed(due, interval) ==
    {now + interval, due + (((now - due) \div interval) + 1) * interval}

\* time passes
Advance ==
    /\ now + StepMs <= MaxTime
    /\ \A t \in Pending : now + StepMs <= timers[t][1] + MaxLate
    /\ now' = now + StepMs
    /\ ledgerCall' = NoCall
    /\ lastEvent' = "clock"
    /\ UNCHANGED <<ledgerVars, priceEngine2, functionCall, sessionVars>>

\* the interval of priceEngine.start() fires: updatePrice, then the subscriber
PriceTick ==
    /\ Due("price")
    /\ \E u \in {updatePrice(priceEngine, now)} :
          /\ priceEngine' = u.engine
          /\ state' = OnPriceUpdate(state, u.priceData, u.isNewCandle, accountState)
    /\ \E due \in Rearmed(timers.price[1], UPDATE_INTERVAL) :
          timers' = [timers EXCEPT !.price = Some(due)]
    /\ ledgerCall' = NoCall
    /\ lastEvent' = "updatePrice"
    /\ UNCHANGED <<now, ledgerVars, priceEngine2, functionCall, aiEngine, lastProcessedSlotRef, decidedSlots>>

\* the alignment timeout fires: startAlignedInterval
StartAlignedInterval ==
    /\ Due("alignment")
    /\ MakeDecision
    /\ timers' = [timers EXCEPT !.alignment = Undefined,
                                !.decision = Some(now + DECISION_INTERVAL)]
    /\ UNCHANGED <<now, priceEngine, priceEngine2, functionCall>>

\* the decision interval fires: makeDecision
DecisionTick ==
    /\ Due("decision")
    /\ MakeDecision
    /\ \E due \in Rearmed(timers.decision[1], DECISION_INTERVAL) :
          timers' = [timers EXCEPT !.decision = Some(due)]
    /\ UNCHANGED <<now, priceEngine, priceEngine2, functionCall>>

\* faulty variant: the decision interval is not cleared
StoppedButDeciding(t) == [t EXCEPT !.price = Undefined, !.alignment = Undefined]

\* the timers after priceEngine.stop(), clearTimeout(alignmentTimeout) and
\* clearInterval(decisionIntervalRef.current)
Stopped(t) == [t EXCEPT !.price = Undefined, !.alignment = Undefined, !.decision = Undefined]

\* the cleanup of the effect of useTradingBot runs: the component unmounts
Cleanup ==
    /\ Pending # {}
    /\ timers' = Stopped(timers)
    /\ ledgerCall' = NoCall
    /\ lastEvent' = "cleanup"
    /\ UNCHANGED <<now, ledgerVars, priceEngine, priceEngine2, functionCall, aiEngine, state,
                   lastProcessedSlotRef, decidedSlots>>

Next == Advance \/ PriceTick \/ StartAlignedInterval \/ DecisionTick \/ Cleanup

Spec == Init /\ [][Next]_vars

----------------------------------------------------------------------------
(* Two engines of the same configuration on one clock.  The first is        *)
(* constructed and started at the start; the second at any later time.      *)
(* Their intervals fire punctually.                                         *)

TwinMaxTime == 65000
TwinStartTimes == {55000, 58000}

TwinInit ==
    /\ \E clk \in TwinStartTimes :
          /\ now = clk
          /\ priceEngine = NewLivePriceEngine(Dollars(INITIAL_PRICE_DOLLARS), clk, clk)
          /\ timers = [NoTimers EXCEPT !.price = Some(clk + UPDATE_INTERVAL)]
    /\ priceEngine2 = NotConstructed
    /\ functionCall = NoCall
    /\ accountState = NotConstructed
    /\ tradeCounter = 0
    /\ aiEngine = NotConstructed
    /\ state = NotConstructed
    /\ lastProcessedSlotRef = ZERO_TIME
    /\ ledgerCall = NoCall
    /\ decidedSlots = <<>>
    /\ lastEvent = "new"

twinVars == <<accountState, tradeCounter, aiEngine, state, lastProcessedSlotRef, ledgerCall,
              decidedSlots, functionCall>>

\* time passes, no interval being due
TwinAdvance ==
    /\ now + StepMs <= TwinMaxTime
    /\ \A t \in Pending : now < timers[t][1]
    /\ now' = now + StepMs
    /\ lastEvent' = "clock"
    /\ UNCHANGED <<priceEngine, priceEngine2, timers, twinVars>>

\* the readings of the clock in the constructor when initializeHistory reads
\* clk: the same millisecond, or the one before
ConstructorReads(clk) == {clk - 1, clk}

\* new LivePriceEngine(config) and start(), for the second engine
TwinConstruct ==
    /\ priceEngine2 = NotConstructed
    /\ \E first \in ConstructorReads(now) :
          priceEngine2' = NewLivePriceEngine(Dollars(INITIAL_PRICE_DOLLARS), first, now)
    /\ timers' = [timers EXCEPT !.price2 = Some(now + UPDATE_INTERVAL)]
    /\ lastEvent' = "new"
    /\ UNCHANGED <<now, priceEngine, twinVars>>

\* the interval of the first engine fires: updatePrice
TwinTick ==
    /\ Due("price")
    /\ priceEngine' = updatePrice(priceEngine, now).engine
    /\ timers' = [timers EXCEPT !.price = Some(now + UPDATE_INTERVAL)]
    /\ lastEvent' = "updatePrice"
    /\ UNCHANGED <<now, priceEngine2, twinVars>>

\* the interval of the second engine fires: updatePrice
TwinTick2 ==
    /\ Due("price2")
    /\ priceEngine2' = updatePrice(priceEngine2, now).engine
    /\ timers' = [timers EXCEPT !.price2 = Some(now + UPDATE_INTERVAL)]
    /\ lastEvent' = "updatePrice"
    /\ UNCHANGED <<now, priceEngine, twinVars>>

TwinNext == TwinAdvance \/ TwinConstruct \/ TwinTick \/ TwinTick2

SpecTwin == TwinInit /\ [][TwinNext]_vars


----------------------------------------------------------------------------
(* The indicator functions and makeDecision on arguments of a caller's      *)
(* choice: functionCall holds the arguments, then the call made with them   *)

MaxCloses == 5          \* the closes passed to an indicator
PnLArgs == {Money(-20), Money(-15) - 1, Money(-15), 0, Money(2) - 1, Money(2), Money(5),
            Money(8) - 1, Money(8), Money(10)}
WindowArgs == {k * DECISION_WINDOW : k \in 0..7}

NoInputs == [currentPrice |-> 0, indicators |-> NoIndicators, position |-> "NONE",
             unrealizedPnL |-> 0, entryPrice |-> 0]

Arguments(closes, period, inputs) ==
    [fn |-> "arguments", closes |-> closes, period |-> period, inputs |-> inputs,
     result |-> Undefined]

FunctionsInit ==
    /\ \/ /\ now = 0
          /\ \E n \in 0..MaxCloses : \E closes \in [1..n -> {1, 2, 3}], period \in {2, 3} :
                functionCall = Arguments(closes, period, NoInputs)
       \/ /\ now \in WindowArgs
          /\ \E position \in {"NONE", "LONG"}, unrealizedPnL \in PnLArgs :
                functionCall = Arguments(<<>>, 0,
                                  [NoInputs EXCEPT !.currentPrice = Dollars(5000),
                                                   !.position = position,
                                                   !.unrealizedPnL = unrealizedPnL,
                                                   !.entryPrice = Dollars(5000)])
    /\ aiEngine = NewAIDecisionEngine
    /\ priceEngine = NotConstructed
    /\ priceEngine2 = NotConstructed
    /\ accountState = NotConstructed
    /\ tradeCounter = 0
    /\ state = NotConstructed
    /\ lastProcessedSlotRef = ZERO_TIME
    /\ timers = NoTimers
    /\ ledgerCall = NoCall
    /\ decidedSlots = <<>>
    /\ lastEvent = "new"

ApplyEMA ==
    /\ functionCall.fn = "arguments"
    /\ functionCall.period > 0
    /\ functionCall' = [functionCall EXCEPT
                           !.fn = "calculateEMA",
                           !.result = calculateEMA(functionCall.closes, functionCall.period)]
    /\ lastEvent' = "calculateEMA"
    /\ UNCHANGED <<now, ledgerVars, priceEngine2, sessionVars, ledgerCall>>

ApplyRSI ==
    /\ functionCall.fn = "arguments"
    /\ functionCall.period > 0
    /\ functionCall' = [functionCall EXCEPT
                           !.fn = "calculateRSI",
                           !.result = calculateRSI(functionCall.closes, functionCall.period)]
    /\ lastEvent' = "calculateRSI"
    /\ UNCHANGED <<now, ledgerVars, priceEngine2, sessionVars, ledgerCall>>

ApplyDecision ==
    /\ functionCall.fn = "arguments"
    /\ functionCall.period = 0
    /\ \E r \in {makeDecision(aiEngine, functionCall.inputs, now)} :
          /\ aiEngine' = r.engine
          /\ functionCall' = [functionCall EXCEPT !.fn = "makeDecision", !.result = r.decision]
    /\ lastEvent' = "makeDecision"
    /\ UNCHANGED <<now, ledgerVars, priceEngine, priceEngine2, state, lastProcessedSlotRef,
                   timers, decidedSlots, ledgerCall>>

FunctionsNext == ApplyEMA \/ ApplyRSI \/ ApplyDecision

SpecFunctions == FunctionsInit /\ [][FunctionsNext]_vars

----------------------------------------------------------------------------
(* A long session: the interval of the price engine is throttled to one     *)
(* tick a minute, and the ledger executes an order after every tick.        *)

MaxLongTime == 30055000 \* the clock stops here: 500 minutes

LongInit ==
    /\ \E clk \in StartTimes :
          /\ now = clk
          /\ priceEngine = NewLivePriceEngine(Dollars(INITIAL_PRICE_DOLLARS), clk, clk)
          /\ \E l \in {NewExecutionSimulator(Money(INITIAL_BALANCE), clk)} :
                accountState = l.accountState /\ tradeCounter = l.tradeCounter
          /\ timers = [NoTimers EXCEPT !.price = Some(clk + UPDATE_INTERVAL)]
    /\ priceEngine2 = NotConstructed
    /\ functionCall = NoCall
    /\ aiEngine = NotConstructed
    /\ state = NotConstructed
    /\ lastProcessedSlotRef = ZERO_TIME
    /\ ledgerCall = NoCall
    /\ decidedSlots = <<>>
    /\ lastEvent = "new"

\* a minute passes
LongAdvance ==
    /\ lastEvent \notin {"clock", "updatePrice"}
    /\ now + ONE_MINUTE <= MaxLongTime
    /\ now' = now + ONE_MINUTE
    /\ ledgerCall' = NoCall
    /\ lastEvent' = "clock"
    /\ UNCHANGED <<ledgerVars, priceEngine2, functionCall, sessionVars>>

\* the interval of the engine fires, late: updatePrice
LongTick ==
    /\ lastEvent = "clock"
    /\ Due("price")
    /\ \E u \in {updatePrice(priceEngine, now)} : priceEngine' = u.engine
    /\ timers' = [timers EXCEPT !.price = Some(now + UPDATE_INTERVAL)]
    /\ ledgerCall' = NoCall
    /\ lastEvent' = "updatePrice"
    /\ UNCHANGED <<now, ledgerVars, priceEngine2, functionCall, aiEngine, state,
                   lastProcessedSlotRef, decidedSlots>>

\* a caller buys at the price of the tick when it holds nothing, and sells
\* what it holds otherwise
LongTrade ==
    /\ lastEvent = "updatePrice"
    /\ IF accountState.position.type = "NONE"
       THEN Buy({priceEngine.currentPrice}, {Undefined}, {Undefined}, MAX_CANDLES)
       ELSE Sell({priceEngine.currentPrice}, {Undefined}, {Undefined}, MAX_CANDLES)

LongNext == LongAdvance \/ LongTick \/ LongTrade

SpecLong == LongInit /\ [][LongNext]_vars

----------------------------------------------------------------------------
(* The session under any price of the clamp: generateNextPrice returns a    *)
(* value of [MIN_PRICE, MAX_PRICE], whatever its draws; here the tick before *)
(* each decision takes any of a few such values, and both timers fire once  *)
(* in each slot, on the boundary.                                           *)

MaxOrdersTime == 75000   \* the clock stops here: seven slots
ClampPrices ==
    {Dollars(MIN_PRICE_DOLLARS), Dollars(MIN_PRICE_DOLLARS + 100),
     Dollars(MIN_PRICE_DOLLARS + 200), Dollars(MAX_PRICE_DOLLARS)}

\* the clock reaches the next slot boundary
OrdersAdvance ==
    /\ lastEvent \in {"mount", "makeDecision"}
    /\ getNextAlignedTime(DECISION_INTERVAL, now + 1) <= MaxOrdersTime
    /\ now' = getNextAlignedTime(DECISION_INTERVAL, now + 1)
    /\ ledgerCall' = NoCall
    /\ lastEvent' = "clock"
    /\ UNCHANGED <<ledgerVars, priceEngine2, functionCall, sessionVars>>

\* the interval of the price engine fires: updatePrice, generateNextPrice
\* returning newPrice, then the subscriber
OrdersTick ==
    /\ lastEvent = "clock"
    /\ \E newPrice \in ClampPrices :
          \E u \in {UpdatedWith(priceEngine, priceEngine, newPrice, now)} :
             /\ priceEngine' = u.engine
             /\ state' = OnPriceUpdate(state, u.priceData, u.isNewCandle, accountState)
    /\ ledgerCall' = NoCall
    /\ lastEvent' = "updatePrice"
    /\ UNCHANGED <<now, ledgerVars, priceEngine2, functionCall, aiEngine, lastProcessedSlotRef,
                   timers, decidedSlots>>

\* the decision timer fires: makeDecision
OrdersDecide ==
    /\ lastEvent = "updatePrice"
    /\ MakeDecision
    /\ UNCHANGED <<now, priceEngine, priceEngine2, functionCall, timers>>

OrdersNext == OrdersAdvance \/ OrdersTick \/ OrdersDecide

SpecOrders == Init /\ [][OrdersNext]_vars

----------------------------------------------------------------------------
(* The engine of real prices: every updateInterval it fetches the price,    *)
(* and the fetch succeeds or fails.                                         *)

REAL_DEFAULT_PRICE_DOLLARS == 2000
REAL_UPDATE_INTERVAL == 5000
MAX_TICKS_BUFFERED == 100
MAX_REAL_CANDLES == 1000
HISTORICAL_HOURS == 24
MaxRealTime == 75000    \* the clock stops here
RealStartTimes == {50000}

\* what fetchCurrentGoldPrice() settles with: a price, or nothing when it rejects
FetchOutcomes == {Undefined, Some(Dollars(2000)), Some(Dollars(2010)), Some(Dollars(1990))}

\* the engine initializeHistory leaves, its first fetch having failed, the
\* clock reading clk
NewRealPriceEngine(clk) ==
    [currentPrice |-> Dollars(REAL_DEFAULT_PRICE_DOLLARS),
     priceHistory |-> <<>>,
     currentOHLC |-> Flat(Dollars(REAL_DEFAULT_PRICE_DOLLARS)),
     lastCandleTimestamp |-> Floor(clk, ONE_MINUTE),
     tickBuffer |-> <<>>,
     isInitialized |-> TRUE]

\* fetchHistoricalGoldPrices(hours), the clock reading clk: a candle for each
\* of the minutes clk - i * 60000, i = hours * 60, ..., 0, here with every
\* Math.random() leaving the fetched price as it is
HistoricalCandles(price, hours, clk) ==
    [k \in 1..(hours * 60 + 1) |->
        PriceData(price, clk - (hours * 60 + 1 - k) * ONE_MINUTE, Flat(price))]

\* the engine initializeHistory leaves when its fetches have given price and
\* the candles loaded
LoadedRealPriceEngine(price, loaded, clk) ==
    [currentPrice |-> price,
     priceHistory |-> loaded,
     currentOHLC |-> IF Len(loaded) > 0
                     THEN [open |-> loaded[Len(loaded)].open,
                           high |-> Max(loaded[Len(loaded)].high, price),
                           low |-> Min(loaded[Len(loaded)].low, price),
                           close |-> price]
                     ELSE Flat(price),
     lastCandleTimestamp |-> Floor(clk, ONE_MINUTE),
     tickBuffer |-> <<>>,
     isInitialized |-> TRUE]

\* the body of updatePrice after the fetch has given newPrice, the clock
\* reading clk: the engine it leaves and what it emits
RealUpdated(e, newPrice, clk) ==
    LET isNewCandle == Floor(clk, ONE_MINUTE) > Floor(e.lastCandleTimestamp, ONE_MINUTE)
        finalizedCandle == PriceData(e.currentOHLC.close, e.lastCandleTimestamp, e.currentOHLC)
        ohlc == IF isNewCandle THEN Flat(newPrice)
                ELSE [e.currentOHLC EXCEPT !.high = Max(@, newPrice),
                                           !.low = Min(@, newPrice),
                                           !.close = newPrice]
    IN [engine |-> [e EXCEPT
                       !.tickBuffer = ShiftedOver(Append(@, [price |-> newPrice,
                                                             timestamp |-> clk]),
                                                  MAX_TICKS_BUFFERED),
                       !.priceHistory = IF isNewCandle /\ e.lastCandleTimestamp > ZERO_TIME
                                        THEN ShiftedOver(Append(@, finalizedCandle),
                                                         MAX_REAL_CANDLES)
                                        ELSE @,
                       !.currentOHLC = ohlc,
                       !.lastCandleTimestamp = IF isNewCandle THEN Floor(clk, ONE_MINUTE) ELSE @,
                       !.currentPrice = newPrice],
        emitted |-> Some([priceData |-> PriceData(newPrice, clk, ohlc),
                          isNewCandle |-> isNewCandle])]

\* faulty variant: a failed fetch is taken for the last known price
RealUpdatePriceRepeatingLast(e, fetched, clk) == RealUpdated(e, OrElse(fetched, e.currentPrice), clk)

\* RealPriceEngine.updatePrice(), the fetch having settled with fetched
RealUpdatePrice(e, fetched, clk) ==
    IF fetched = Undefined THEN [engine |-> e, emitted |-> Undefined]
    ELSE RealUpdated(e, fetched[1], clk)

RealInit ==
    /\ \E clk \in RealStartTimes :
          /\ now = clk
          /\ \/ priceEngine = NewRealPriceEngine(clk)
             \/ \E fetched \in FetchOutcomes \ {Undefined} :
                   priceEngine = LoadedRealPriceEngine(
                                    fetched[1],
                                    HistoricalCandles(fetched[1], HISTORICAL_HOURS, clk), clk)
          /\ timers = [NoTimers EXCEPT !.price = Some(clk + REAL_UPDATE_INTERVAL)]
    /\ priceEngine2 = NotConstructed
    /\ functionCall = NoCall
    /\ accountState = NotConstructed
    /\ tradeCounter = 0
    /\ aiEngine = NotConstructed
    /\ state = NotConstructed
    /\ lastProcessedSlotRef = ZERO_TIME
    /\ ledgerCall = NoCall
    /\ decidedSlots = <<>>
    /\ lastEvent = "new"

\* time passes until the interval is due
RealAdvance ==
    /\ now < timers.price[1]
    /\ timers.price[1] <= MaxRealTime
    /\ now' = timers.price[1]
    /\ lastEvent' = "clock"
    /\ UNCHANGED <<priceEngine, priceEngine2, timers, twinVars>>

\* the interval of start() fires: updatePrice, whose fetch settles
RealTick ==
    /\ Due("price")
    /\ \E fetched \in FetchOutcomes : \E u \in {RealUpdatePrice(priceEngine, fetched, now)} :
          /\ priceEngine' = u.engine
          /\ functionCall' = [fn |-> "updatePrice", fetched |-> fetched, emitted |-> u.emitted]
    /\ timers' = [timers EXCEPT !.price = Some(now + REAL_UPDATE_INTERVAL)]
    /\ lastEvent' = "updatePrice"
    /\ UNCHANGED <<now, ledgerVars, priceEngine2, aiEngine, state, lastProcessedSlotRef,
                   decidedSlots, ledgerCall>>

RealNext == RealAdvance \/ RealTick

SpecReal == RealInit /\ [][RealNext]_vars

----------------------------------------------------------------------------
(* The engine of real prices and its client: the client calls start() and   *)
(* stop() at any time, initializeHistory settles at any time, and the       *)
(* timeouts and intervals the engine has set fire when they are due.        *)
(* timers holds intervalId, the intervals setInterval has created and       *)
(* clearInterval has not cleared, and the due times of the pending          *)
(* timeouts of start(); functionCall holds the last call of the client.     *)

START_RETRY_DELAY == 1000
MaxPollingTime == 57000  \* the clock stops here
MaxPollingCalls == 3     \* the calls of start() and stop() in a behaviour

\* the engine the constructor leaves while initializeHistory is waiting
ConstructedRealPriceEngine ==
    [currentPrice |-> Dollars(REAL_DEFAULT_PRICE_DOLLARS),
     priceHistory |-> <<>>,
     currentOHLC |-> Flat(Dollars(REAL_DEFAULT_PRICE_DOLLARS)),
     lastCandleTimestamp |-> ZERO_TIME,
     tickBuffer |-> <<>>,
     isInitialized |-> FALSE]

\* start() on the timers t and the engine e, the clock reading clk
Started(t, e, clk) ==
    IF t.intervalId # Undefined THEN t
    ELSE IF ~e.isInitialized
    THEN [t EXCEPT !.retries = Append(@, clk + START_RETRY_DELAY)]
    ELSE [t EXCEPT !.intervalId = Some(t.created + 1),
                   !.intervals = @ \cup {[id |-> t.created + 1,
                                          due |-> clk + REAL_UPDATE_INTERVAL]},
                   !.created = @ + 1]

\* stop() on the timers t
StoppedPolling(t) ==
    IF t.intervalId # Undefined
    THEN [t EXCEPT !.intervals = {i \in @ : i.id # t.intervalId[1]},
                   !.intervalId = Undefined]
    ELSE t

PollingInit ==
    /\ \E clk \in RealStartTimes : now = clk
    /\ priceEngine = ConstructedRealPriceEngine
    /\ timers = [intervalId |-> Undefined, intervals |-> {}, retries |-> <<>>, created |-> 0]
    /\ functionCall = [fn |-> "new", calls |-> 0]
    /\ priceEngine2 = NotConstructed
    /\ accountState = NotConstructed
    /\ tradeCounter = 0
    /\ aiEngine = NotConstructed
    /\ state = NotConstructed
    /\ lastProcessedSlotRef = ZERO_TIME
    /\ ledgerCall = NoCall
    /\ decidedSlots = <<>>
    /\ lastEvent = "new"

\* a timeout or an interval of the engine is due
PollingDue ==
    \/ \E i \in timers.intervals : i.due <= now
    \/ \E k \in 1..Len(timers.retries) : timers.retries[k] <= now

\* time passes, nothing being due
PollingAdvance ==
    /\ ~PollingDue
    /\ now + START_RETRY_DELAY <= MaxPollingTime
    /\ now' = now + START_RETRY_DELAY
    /\ lastEvent' = "clock"
    /\ UNCHANGED <<priceEngine, priceEngine2, timers, twinVars>>

\* the client calls start()
PollingStart ==
    /\ functionCall.calls < MaxPollingCalls
    /\ timers' = Started(timers, priceEngine, now)
    /\ functionCall' = [fn |-> "start", calls |-> functionCall.calls + 1]
    /\ lastEvent' = "start"
    /\ UNCHANGED <<now, priceEngine, priceEngine2, ledgerVars, aiEngine, state,
                   lastProcessedSlotRef, ledgerCall, decidedSlots>>

\* the client calls stop()
PollingStop ==
    /\ functionCall.calls < MaxPollingCalls
    /\ timers' = StoppedPolling(timers)
    /\ functionCall' = [fn |-> "stop", calls |-> functionCall.calls + 1]
    /\ lastEvent' = "stop"
    /\ UNCHANGED <<now, priceEngine, priceEngine2, ledgerVars, aiEngine, state,
                   lastProcessedSlotRef, ledgerCall, decidedSlots>>

\* initializeHistory settles: its first fetch has failed, or both have succeeded
PollingInitialized ==
    /\ ~priceEngine.isInitialized
    /\ \/ priceEngine' = NewRealPriceEngine(now)
       \/ \E fetched \in FetchOutcomes \ {Undefined} :
             priceEngine' = LoadedRealPriceEngine(
                               fetched[1],
                               HistoricalCandles(fetched[1], HISTORICAL_HOURS, now), now)
    /\ lastEvent' = "initialized"
    /\ UNCHANGED <<now, priceEngine2, timers, twinVars>>

\* a timeout of start() fires: start()
PollingRetry ==
    /\ timers.retries # <<>>
    /\ Head(timers.retries) <= now
    /\ timers' = Started([timers EXCEPT !.retries = Tail(@)], priceEngine, now)
    /\ lastEvent' = "retry"
    /\ UNCHANGED <<now, priceEngine, priceEngine2, twinVars>>

\* an interval fires: updatePrice, whose fetch settles
PollingTick ==
    /\ \E i \in timers.intervals :
          /\ i.due <= now
          /\ timers' = [timers EXCEPT
                           !.intervals = (@ \ {i}) \cup
                                         {[i EXCEPT !.due = now + REAL_UPDATE_INTERVAL]}]
    /\ \E fetched \in FetchOutcomes :
          priceEngine' = RealUpdatePrice(priceEngine, fetched, now).engine
    /\ lastEvent' = "updatePrice"
    /\ UNCHANGED <<now, priceEngine2, twinVars>>

PollingNext ==
    \/ PollingAdvance
    \/ PollingStart
    \/ PollingStop
    \/ PollingInitialized
    \/ PollingRetry
    \/ PollingTick

SpecPolling == PollingInit /\ [][PollingNext]_vars

----------------------------------------------------------------------------
(* The decision engine under any caller: makeDecision is called with any    *)
(* inputs, at once or after a wait, on an engine that has decided before.   *)

MaxDecisions == 2       \* the calls of makeDecision in a behaviour
CallDelays == {1000, MIN_TIME_BETWEEN_TRADES}

\* the prices of the calls the engine has answered before
EarlierPrices ==
    {<<>>, <<Dollars(4999), Dollars(5000)>>}
    \cup {[i \in 1..k |-> Dollars(5000)] : k \in {MIN_TICKS - 1, MIN_TICKS}}

Holding(price, unrealizedPnL) ==
    [currentPrice |-> price, indicators |-> NoIndicators, position |-> "LONG",
     unrealizedPnL |-> unrealizedPnL, entryPrice |-> Dollars(5000)]

IndicatorArgs ==
    {NoIndicators,
     [NoIndicators EXCEPT !.rsi14 = Some(30 * RsiScale)],
     [NoIndicators EXCEPT !.ema20 = Some(Dollars(4990) * IndicatorScale)],
     [ema20 |-> Some(Dollars(4990) * IndicatorScale),
      ema50 |-> Some(Dollars(4980) * IndicatorScale),
      rsi14 |-> Some(50 * RsiScale)]}

InputArgs ==
    {[NoInputs EXCEPT !.currentPrice = price, !.indicators = indicators] :
        price \in {Dollars(5000), Dollars(5001)}, indicators \in IndicatorArgs}
    \cup {Holding(price, Money(10)) : price \in {Dollars(5000), Dollars(5001)}}

\* the engine after calls of makeDecision at these prices, a position being
\* held at no profit: each returned HOLD
RECURSIVE EngineAfter(_)
EngineAfter(prices) ==
    IF prices = <<>> THEN NewAIDecisionEngine
    ELSE makeDecision(EngineAfter(SubSeq(prices, 1, Len(prices) - 1)),
                      Holding(prices[Len(prices)], 0), 0).engine

EngineInit ==
    /\ now = 0
    /\ \E prices \in EarlierPrices : aiEngine = EngineAfter(prices)
    /\ functionCall = [fn |-> "new", calls |-> 0, lastTrading |-> Undefined]
    /\ priceEngine = NotConstructed
    /\ priceEngine2 = NotConstructed
    /\ accountState = NotConstructed
    /\ tradeCounter = 0
    /\ state = NotConstructed
    /\ lastProcessedSlotRef = ZERO_TIME
    /\ timers = NoTimers
    /\ ledgerCall = NoCall
    /\ decidedSlots = <<>>
    /\ lastEvent = "new"

\* time passes before the next call
Wait ==
    /\ lastEvent # "clock"
    /\ functionCall.calls < MaxDecisions
    /\ \E delay \in CallDelays : now' = now + delay
    /\ lastEvent' = "clock"
    /\ UNCHANGED <<ledgerVars, priceEngine2, functionCall, sessionVars, ledgerCall>>

\* a call of makeDecision(inputs); lastTrading is the time of the latest call
\* before it that returned BUY or SELL
Decide ==
    /\ functionCall.calls < MaxDecisions
    /\ \E inputs \in InputArgs : \E r \in {makeDecision(aiEngine, inputs, now)} :
          /\ aiEngine' = r.engine
          /\ functionCall' = [fn |-> "makeDecision", inputs |-> inputs, clock |-> now,
                              pre |-> aiEngine, result |-> r.decision,
                              calls |-> functionCall.calls + 1,
                              lastTrading |-> IF /\ functionCall.fn = "makeDecision"
                                                 /\ functionCall.result.action \in {"BUY", "SELL"}
                                              THEN Some(functionCall.clock)
                                              ELSE functionCall.lastTrading,
                              previous |-> functionCall]
    /\ lastEvent' = "makeDecision"
    /\ UNCHANGED <<now, ledgerVars, priceEngine, priceEngine2, state, lastProcessedSlotRef,
                   timers, decidedSlots, ledgerCall>>

EngineNext == Wait \/ Decide

SpecEngine == EngineInit /\ [][EngineNext]_vars

----------------------------------------------------------------------------
(* Claims about the ledger.  ledgerCall holds the operation of the step    *)
(* that led to the current state, its arguments, the ledger before it       *)
(* (pre) and what it returned.                                              *)

IsCall(op) == ledgerCall.op = op
IsLedgerCall == ledgerCall.op \in {"executeBuy", "executeSell"}
Pre == ledgerCall.pre.accountState
LedgerUnchanged ==
    /\ accountState = ledgerCall.pre.accountState
    /\ tradeCounter = ledgerCall.pre.tradeCounter
CallTime == OrElse(ledgerCall.timestamp, ledgerCall.clock)
BuyQty == OrElse(ledgerCall.quantity, DEFAULT_POSITION_SIZE)
SellQty == OrElse(ledgerCall.quantity, Pre.position.quantity)
\* price * quantity * (1 + feeRate)
CostPlusFee(price, qty) == Times(price, qty) + (Times(price, qty) \div TRADING_FEE_DIVISOR)
\* price * quantity * (1 - feeRate)
NetProceeds(price, qty) == Times(price, qty) - (Times(price, qty) \div TRADING_FEE_DIVISOR)
LastTradeOf(acc) == acc.trades[Len(acc.trades)]

\* C4: executeBuy with balance < price*quantity*(1+feeRate) returns the failure
\* and leaves balance, position, realizedPnL, trades and the counter unchanged.
C4_InsufficientFundsRejected ==
    (IsCall("executeBuy") /\ Pre.balance < CostPlusFee(ledgerCall.price, BuyQty))
        => (ledgerCall.result = Null /\ LedgerUnchanged)

C4_Witness ==
    /\ IsCall("executeBuy")
    /\ Pre.position.type = "NONE"
    /\ Pre.balance < CostPlusFee(ledgerCall.price, BuyQty)
    /\ ledgerCall.result = Null

\* C5: executeSell while the position is NONE returns the failure and mutates
\* nothing, whatever the price and quantity.
C5_NoOpenPositionRejected ==
    (IsCall("executeSell") /\ Pre.position.type = "NONE")
        => (ledgerCall.result = Null /\ LedgerUnchanged)

C5_Witness ==
    /\ IsCall("executeSell")
    /\ Pre.position.type = "NONE"
    /\ ledgerCall.quantity \in {Undefined, Some(0)}
    /\ Len(Pre.trades) > SEEDED_TRADES
    /\ ledgerCall.result = Null

RECURSIVE NetQuantity(_, _)
\* bought minus sold quantity over the executed trades trades[SEEDED_TRADES+1 .. k]
NetQuantity(trades, k) ==
    IF k <= SEEDED_TRADES THEN 0
    ELSE NetQuantity(trades, k - 1)
         + (IF trades[k].type = "BUY" THEN trades[k].quantity ELSE 0 - trades[k].quantity)

\* C6: executeBuy while LONG is rejected and leaves the ledger unchanged; a BUY is
\* accepted only when flat, so every executed BUY follows a SELL and finds all
\* earlier bought quantity sold.
C6_SinglePosition ==
    /\ (IsCall("executeBuy") /\ Pre.position.type = "LONG")
          => (ledgerCall.result = Null /\ LedgerUnchanged)
    /\ (IsCall("executeBuy") /\ ledgerCall.result # Null) => Pre.position.type = "NONE"
    /\ \A j \in (SEEDED_TRADES + 1)..Len(accountState.trades) :
          accountState.trades[j].type = "BUY"
             => /\ accountState.trades[j - 1].type = "SELL"
                /\ NetQuantity(accountState.trades, j - 1) = 0

C6_Witness ==
    /\ IsCall("executeBuy")
    /\ Pre.position.type = "LONG"
    /\ Pre.balance >= CostPlusFee(ledgerCall.price, BuyQty)
    /\ ledgerCall.result = Null

\* C7: executeSell of more than the held quantity is rejected and leaves the
\* ledger unchanged.
C7_OverSellRejected ==
    (IsCall("executeSell") /\ SellQty > Pre.position.quantity)
        => (ledgerCall.result = Null /\ LedgerUnchanged)

C7_Witness ==
    /\ IsCall("executeSell")
    /\ Pre.position.type = "LONG"
    /\ Pre.position.quantity > 0
    /\ SellQty > Pre.position.quantity
    /\ ledgerCall.result = Null

\* the causes of rejection that apply to the call, as section 4.5 names them
Causes ==
    IF IsCall("executeBuy")
    THEN {c \in {"InsufficientFunds", "PositionAlreadyOpen"} :
            \/ c = "InsufficientFunds" /\ Pre.balance < CostPlusFee(ledgerCall.price, BuyQty)
            \/ c = "PositionAlreadyOpen" /\ Pre.position.type = "LONG"}
    ELSE IF IsCall("executeSell")
    THEN {c \in {"NoOpenPosition", "OverSellQuantity"} :
            \/ c = "NoOpenPosition" /\ Pre.position.type = "NONE"
            \/ c = "OverSellQuantity" /\ Pre.position.type = "LONG"
                                      /\ SellQty > Pre.position.quantity}
    ELSE {}

IsRejection == IsLedgerCall /\ Causes # {}

C9_BuyEffect ==
    (IsCall("executeBuy") /\ ledgerCall.result # Null) =>
        /\ accountState.balance = Pre.balance - CostPlusFee(ledgerCall.price, BuyQty)
        /\ accountState.position = [type |-> "LONG", quantity |-> BuyQty,
                                    entryPrice |-> ledgerCall.price, entryTime |-> CallTime]
        /\ accountState.realizedPnL = Pre.realizedPnL
        /\ accountState.trades = Append(Pre.trades, ledgerCall.result)
        /\ ledgerCall.result.type = "BUY"
        /\ ledgerCall.result.price = ledgerCall.price
        /\ ledgerCall.result.quantity = BuyQty
        /\ ledgerCall.result.timestamp = CallTime
        /\ ledgerCall.result.id = <<CallTime, "BUY", LastTradeOf(Pre).id[3] + 1>>

C9_Witness ==
    /\ IsCall("executeBuy")
    /\ ledgerCall.result # Null
    /\ ledgerCall.timestamp # Undefined
    /\ ledgerCall.timestamp # Some(ledgerCall.clock)
    /\ ledgerCall.quantity = Some(1)
    /\ Len(Pre.trades) > SEEDED_TRADES

\* C10: an accepted executeSell adds netProceeds = price*quantity*(1-feeRate) to
\* the balance and netProceeds - entryPrice*quantity to realizedPnL, appends one
\* SELL trade, and resets the position when the whole quantity is sold, else
\* only reduces the held quantity.
C10_SellEffect ==
    (IsCall("executeSell") /\ ledgerCall.result # Null) =>
        /\ accountState.balance = Pre.balance + NetProceeds(ledgerCall.price, SellQty)
        /\ accountState.realizedPnL =
              Pre.realizedPnL + NetProceeds(ledgerCall.price, SellQty)
                              - Times(Pre.position.entryPrice, SellQty)
        /\ accountState.trades = Append(Pre.trades, ledgerCall.result)
        /\ ledgerCall.result.type = "SELL"
        /\ ledgerCall.result.quantity = SellQty
        /\ accountState.position =
              IF SellQty = Pre.position.quantity
              THEN [type |-> "NONE", quantity |-> 0, entryPrice |-> 0, entryTime |-> 0]
              ELSE [type |-> "LONG", quantity |-> Pre.position.quantity - SellQty,
                    entryPrice |-> Pre.position.entryPrice,
                    entryTime |-> Pre.position.entryTime]

C10_Witness ==
    /\ IsCall("executeSell")
    /\ ledgerCall.result # Null
    /\ SellQty > 0
    /\ SellQty < Pre.position.quantity
    /\ accountState.position.type = "LONG"


\* C11 as stated: in every ledger state the position holds a positive quantity
\* exactly when it is LONG.
C11_QuantityIffLong ==
    accountState.position.quantity > 0 <=> accountState.position.type = "LONG"

\* C12 as stated: after every accepted executeBuy or executeSell the balance
\* is not negative.
C12_BalanceNeverNegative ==
    (IsLedgerCall /\ ledgerCall.result # Null) => accountState.balance >= 0

\* C13: the ids of the trades of a ledger, seeded and executed, are pairwise
\* distinct; the counter in the id strictly increases along the history (the
\* trades are numbered 1, 2, ... and the counter stands at the last number)
\* and is not advanced by a rejected call; a step keeps every trade recorded
\* so far, in place: the history only grows by appending.
C13_IdsDistinctHistoryGrows ==
    /\ [](/\ \A i \in 1..Len(accountState.trades) : accountState.trades[i].id[3] = i
          /\ \A i, j \in 1..Len(accountState.trades) :
                i < j => /\ accountState.trades[i].id # accountState.trades[j].id
                         /\ accountState.trades[i].id[3] < accountState.trades[j].id[3]
          /\ tradeCounter = Len(accountState.trades))
    /\ [][/\ Len(accountState.trades') >= Len(accountState.trades)
          /\ SubSeq(accountState.trades', 1, Len(accountState.trades)) = accountState.trades
          /\ (IsLedgerCall' /\ ledgerCall'.result = Null) => tradeCounter' = tradeCounter]_vars

C13_Witness ==
    /\ IsLedgerCall
    /\ ledgerCall.result = Null
    /\ Len(accountState.trades) > SEEDED_TRADES + 1
    /\ tradeCounter = Len(accountState.trades)

\* C14 as stated: every trade the ledger records has price > 0, quantity > 0
\* and fee >= 0.
C14_TradesPositive ==
    \A i \in 1..Len(accountState.trades) :
        /\ accountState.trades[i].price > 0
        /\ accountState.trades[i].quantity > 0
        /\ accountState.trades[i].fee >= 0


\* C15 as stated: a ledger created with balance 200 that buys at 5000 has
\* fee 0.05, balance 99.95 and position {LONG, 0.02, 5000}; selling at 5100
\* then gives fee 0.051, net proceeds 101.949, realizedPnL 1.949, balance
\* 201.899 and position NONE.  The BUY is the first call on the ledger, the
\* SELL the call after it.
C15_EndToEnd ==
    /\ (/\ IsCall("executeBuy")
        /\ Len(Pre.trades) = SEEDED_TRADES
        /\ ledgerCall.price = Dollars(5000)
        /\ ledgerCall.quantity = Undefined)
          => /\ ledgerCall.result # Null
             /\ ledgerCall.result.fee = 50000
             /\ accountState.balance = 99950000
             /\ accountState.position.type = "LONG"
             /\ accountState.position.quantity = DEFAULT_POSITION_SIZE
             /\ accountState.position.entryPrice = Dollars(5000)
    /\ (/\ IsCall("executeSell")
        /\ Len(Pre.trades) = SEEDED_TRADES + 1
        /\ Pre.position.quantity = DEFAULT_POSITION_SIZE
        /\ Pre.position.entryPrice = Dollars(5000)
        /\ ledgerCall.price = Dollars(5100)
        /\ ledgerCall.quantity = Undefined)
          => /\ ledgerCall.result # Null
             /\ ledgerCall.result.fee = 51000
             /\ accountState.balance - Pre.balance = 101949000
             /\ accountState.realizedPnL = 1949000
             /\ accountState.balance = 201899000
             /\ accountState.position = NoPosition


\* C16 as stated: no write a caller performs on a value returned by
\* getAccountState() or getPosition(), or on anything reachable from it,
\* changes the balance, the position or the trade history of the ledger.
C16_DefensiveCopies ==
    IsCall("write") => LedgerUnchanged

\* C17: getUnrealizedPnL(currentPrice) returns 0 when the position is NONE and
\* (currentPrice - entryPrice) * heldQuantity when it is LONG, and leaves
\* every field of the ledger unchanged.
C17_UnrealizedPnL ==
    IsCall("getUnrealizedPnL")
       => /\ ledgerCall.result
               = IF Pre.position.type = "NONE" THEN 0
                 ELSE Times(ledgerCall.price - Pre.position.entryPrice, Pre.position.quantity)
          /\ LedgerUnchanged

C17_Witness ==
    /\ IsCall("getUnrealizedPnL")
    /\ accountState.position.type = "LONG"
    /\ accountState.position.quantity = DEFAULT_POSITION_SIZE
    /\ ledgerCall.price > accountState.position.entryPrice
    /\ ledgerCall.result = 2 * MoneyScale


----------------------------------------------------------------------------
(* Claims about the indicator functions and the decision cascade.           *)
(* functionCall holds the call: its arguments and its result                *)

RECURSIVE EmaFold(_, _, _)
\* the average after closes[1..i], i >= p: the mean of the first p closes,
\* then ema = (close[i] - ema) * 2/(p+1) + ema, in 1/IndicatorScale
EmaFold(closes, p, i) ==
    IF i = p THEN DivRound(SumSeq(closes, 1, p) * IndicatorScale, p)
    ELSE LET ema == EmaFold(closes, p, i - 1)
         IN DivRound((closes[i] * IndicatorScale - ema) * 2, p + 1) + ema

\* C18: calculateEMA(closes, p) is absent when len(closes) < p; it is the
\* mean of the first p closes when len(closes) = p; for a longer sequence it
\* is the fold of ema = (close[i] - ema) * 2/(p+1) + ema from that mean.
C18_EmaSeedAndFold ==
    functionCall.fn = "calculateEMA"
       => LET closes == functionCall.closes
              p == functionCall.period
          IN /\ Len(closes) < p <=> functionCall.result = Undefined
             /\ Len(closes) = p
                   => /\ functionCall.result # Undefined
                      /\ 2 * Abs(functionCall.result[1] * p
                                 - SumSeq(closes, 1, p) * IndicatorScale) <= p
             /\ Len(closes) >= p => functionCall.result = Some(EmaFold(closes, p, Len(closes)))

C18_Witness ==
    /\ functionCall.fn = "calculateEMA"
    /\ Len(functionCall.closes) > functionCall.period + 1
    /\ functionCall.closes[1] # functionCall.closes[2]
    /\ functionCall.result # Undefined
    /\ functionCall.result # Some(functionCall.closes[1] * IndicatorScale)

\* C19 as stated: calculateRSI is in [0, 100], and it is exactly 100 if and
\* only if every delta is non-negative and at least one delta is positive.
C19_HundredIffGainsOnly ==
    (functionCall.fn = "calculateRSI" /\ functionCall.result # Undefined)
       => LET closes == functionCall.closes
              deltas == [i \in 1..(Len(closes) - 1) |-> closes[i + 1] - closes[i]]
          IN /\ functionCall.result[1] \in 0..(100 * RsiScale)
             /\ functionCall.result[1] = 100 * RsiScale
                   <=> /\ \A i \in DOMAIN deltas : deltas[i] >= 0
                       /\ \E i \in DOMAIN deltas : deltas[i] > 0

\* C19 as amended: calculateRSI is absent below period + 1 closes; otherwise
\* it is in [0, 100], and it is exactly 100 if and only if no delta is
\* negative: a sequence of equal closes has RSI 100 as well.
C19_HundredIffNoLoss ==
    functionCall.fn = "calculateRSI"
       => LET closes == functionCall.closes
              deltas == [i \in 1..(Len(closes) - 1) |-> closes[i + 1] - closes[i]]
          IN IF Len(closes) < functionCall.period + 1
             THEN functionCall.result = Undefined
             ELSE /\ functionCall.result # Undefined
                  /\ functionCall.result[1] \in 0..(100 * RsiScale)
                  /\ functionCall.result[1] = 100 * RsiScale
                        <=> \A i \in DOMAIN deltas : deltas[i] >= 0

C19_Witness ==
    /\ functionCall.fn = "calculateRSI"
    /\ Len(functionCall.closes) > functionCall.period + 1
    /\ \A i \in DOMAIN functionCall.closes : functionCall.closes[i] = functionCall.closes[1]
    /\ functionCall.result = Some(100 * RsiScale)

\* C20: with position LONG, makeDecision never answers BUY, and the first
\* rule that matches decides: SELL when unrealizedPnL >= the seeded profit
\* target, a value in [2, 8); else SELL when unrealizedPnL < -15; else HOLD.
\* So unrealizedPnL >= 8 gives SELL and unrealizedPnL in [-15, 2) gives HOLD.
C20_LongCascade ==
    (functionCall.fn = "makeDecision" /\ functionCall.inputs.position = "LONG")
       => LET pnl == functionCall.inputs.unrealizedPnL
              target == ProfitTarget(Draws(WindowSeed(now), 1)[1])
              decision == functionCall.result
          IN /\ decision.action # "BUY"
             /\ Money(2) <= target /\ target < Money(8)
             /\ decision.action = IF pnl >= target THEN "SELL"
                                  ELSE IF pnl < Money(-15) THEN "SELL" ELSE "HOLD"
             /\ decision.reason = IF pnl >= target THEN "take_profit"
                                  ELSE IF pnl < Money(-15) THEN "stop_loss" ELSE "holding"
             /\ pnl >= Money(8) => decision.action = "SELL"
             /\ (Money(-15) <= pnl /\ pnl < Money(2)) => decision.action = "HOLD"

C20_Witness ==
    /\ functionCall.fn = "makeDecision"
    /\ functionCall.inputs.position = "LONG"
    /\ functionCall.inputs.unrealizedPnL = Money(5)
    /\ functionCall.result.action = "SELL"
    /\ aiEngine.lastTradeTime = now

----------------------------------------------------------------------------
(* Claims about the session and the price engine *)

IsDecisionCallback(event) ==
    event \in {"makeDecision", "makeDecision: slot already processed"}
SlotOf(clk) == getCurrentTimeSlot(DECISION_INTERVAL, clk)
ExecutedTrades == SubSeq(accountState.trades, SEEDED_TRADES + 1, Len(accountState.trades))

\* C1: the decision and trade logic runs at most once per decision slot: a timer
\* callback whose slot is not greater than the last processed slot leaves the
\* decision engine, the ledger and the published state as they were, and a
\* callback that runs the logic does so for a slot later than every slot it has
\* run for.
C1_OncePerSlot ==
    [][IsDecisionCallback(lastEvent')
       => IF SlotOf(now') <= lastProcessedSlotRef
          THEN UNCHANGED <<aiEngine, accountState, tradeCounter, state,
                           lastProcessedSlotRef, decidedSlots>>
          ELSE /\ decidedSlots' = Append(decidedSlots, SlotOf(now'))
               /\ \A i \in 1..Len(decidedSlots) : decidedSlots[i] < SlotOf(now')]_vars

\* a second callback arrived in a slot whose decision had been made
C1_Witness ==
    /\ lastEvent = "makeDecision: slot already processed"
    /\ Len(decidedSlots) > 0
    /\ decidedSlots[Len(decidedSlots)] = SlotOf(now)
    /\ state.latestDecision # Null

\* C2: every trade the session executes carries the slot of its decision as its
\* timestamp, and a BUY makes it the entry time of the position: never the
\* clock reading of the call.  Every such timestamp is a multiple of the decision
\* interval.
C2_TradesCarrySlot ==
    /\ \A i \in 1..Len(ExecutedTrades) : ExecutedTrades[i].timestamp % DECISION_INTERVAL = 0
    /\ state.trades = ExecutedTrades
    /\ accountState.position.type = "LONG"
          => accountState.position.entryTime % DECISION_INTERVAL = 0
    /\ (IsLedgerCall /\ ledgerCall.result # Null)
          => /\ ledgerCall.result.timestamp = SlotOf(ledgerCall.clock)
             /\ ledgerCall.result.id[1] = SlotOf(ledgerCall.clock)
             /\ ledgerCall.op = "executeBuy"
                   => accountState.position.entryTime = SlotOf(ledgerCall.clock)

\* a trade was executed by a callback that ran late, off the slot boundary
C2_Witness ==
    /\ ledgerCall.op = "executeBuy"
    /\ ledgerCall.result # Null
    /\ ledgerCall.clock % DECISION_INTERVAL # 0
    /\ accountState.position.type = "LONG"

\* both engines have made the update of the current second
BothUpdatedNow ==
    /\ priceEngine2 # NotConstructed
    /\ priceEngine.tickCount > 0
    /\ priceEngine2.tickCount > 0
    /\ timers.price = Some(now + UPDATE_INTERVAL)
    /\ timers.price2 = Some(now + UPDATE_INTERVAL)

\* C3: two engines of the same configuration, whenever each was constructed and
\* started, report the same current price and the same candle values when both
\* are queried in the same second.
C3_TwinsAgree ==
    BothUpdatedNow
       => /\ priceEngine.currentPrice = priceEngine2.currentPrice
          /\ getLatestOHLC(priceEngine) = getLatestOHLC(priceEngine2)

\* makeDecision has answered a caller that holds no position
IsFlatCall == functionCall.fn = "makeDecision" /\ functionCall.inputs.position = "NONE"

\* the cooldown had elapsed when the call was made
CooldownElapsed ==
    functionCall.clock - functionCall.pre.lastTradeTime >= MIN_TIME_BETWEEN_TRADES

\* the reason of the first entry rule that holds for the call, "scanning" if
\* none does: the momentum after the call's price, the indicators passed, the
\* first value of the window's generator and the number of calls so far
FirstRule ==
    LET given == functionCall.inputs
        ema20 == given.indicators.ema20
        ema50 == given.indicators.ema50
        rsi14 == given.indicators.rsi14
    IN IF aiEngine.priceDirection = 1 /\ aiEngine.consecutiveMoves >= 2 THEN "momentum"
       ELSE IF rsi14 # Undefined /\ rsi14[1] < 35 * RsiScale THEN "rsi_oversold"
       ELSE IF /\ ema20 # Undefined
               /\ ema50 # Undefined
               /\ given.currentPrice * IndicatorScale > ema20[1]
               /\ ema20[1] > ema50[1] THEN "ema_trend"
       ELSE IF /\ Draws(WindowSeed(functionCall.clock), 1)[1] * 10 > 7 * HALF
               /\ aiEngine.tickCount > 10 THEN "opportunistic"
       ELSE "scanning"

\* C21: with no position held the action is never SELL, and once the cooldown
\* has elapsed the result is BUY exactly when one of the four entry rules holds
\* (momentum up with a streak of 2 or more; rsi14 present and under 35; ema20 and
\* ema50 present with price > ema20 > ema50; a seeded value over 0.7 with more
\* than 10 decisions made, this one counted), its reason that of the first in
\* this order, and HOLD otherwise.
C21_FlatCascade ==
    IsFlatCall
       => /\ functionCall.result.action # "SELL"
          /\ CooldownElapsed
                => /\ functionCall.result.reason = FirstRule
                   /\ functionCall.result.action = IF FirstRule = "scanning" THEN "HOLD" ELSE "BUY"

\* only the fourth rule held, at the eleventh decision of the engine
C21_Witness ==
    /\ IsFlatCall
    /\ CooldownElapsed
    /\ functionCall.result.action = "BUY"
    /\ functionCall.result.reason = "opportunistic"
    /\ aiEngine.tickCount = MIN_TICKS + 1

\* C22: after a call of makeDecision that returned BUY or SELL, every call made
\* with no position held less than 8000 ms after it returns HOLD, whatever the
\* momentum, the indicators and the seeded values.
C22_CooldownHolds ==
    (/\ IsFlatCall
     /\ functionCall.lastTrading # Undefined
     /\ functionCall.clock - functionCall.lastTrading[1] < 8000)
       => functionCall.result.action = "HOLD"

\* a call 1000 ms after a BUY, with an oversold RSI, was answered HOLD
C22_Witness ==
    /\ IsFlatCall
    /\ functionCall.lastTrading = Some(functionCall.clock - 1000)
    /\ functionCall.previous.result.action = "BUY"
    /\ functionCall.inputs.indicators.rsi14 = Some(30 * RsiScale)
    /\ functionCall.result.action = "HOLD"

\* C23: an absent indicator triggers no rule and causes no error: with rsi14
\* absent the oversold rule does not fire, with ema20 or ema50 absent the trend
\* rule does not fire, and makeDecision still returns a decision, made from the
\* rules that remain.
C23_AbsentIndicators ==
    IsFlatCall
       => /\ functionCall.inputs.indicators.rsi14 = Undefined
                => functionCall.result.reason # "rsi_oversold"
          /\ (\/ functionCall.inputs.indicators.ema20 = Undefined
              \/ functionCall.inputs.indicators.ema50 = Undefined)
                => functionCall.result.reason # "ema_trend"
          /\ functionCall.result.action \in {"BUY", "HOLD"}
          /\ functionCall.result.reason
                \in {"cooldown", "momentum", "rsi_oversold", "ema_trend", "opportunistic", "scanning"}

\* with rsi14 and ema50 absent, and the price over ema20, the cooldown elapsed
\* and no momentum, the decision came from the fourth rule
C23_Witness ==
    /\ IsFlatCall
    /\ CooldownElapsed
    /\ functionCall.inputs.indicators.rsi14 = Undefined
    /\ functionCall.inputs.indicators.ema50 = Undefined
    /\ functionCall.inputs.indicators.ema20 # Undefined
    /\ functionCall.inputs.currentPrice * IndicatorScale > functionCall.inputs.indicators.ema20[1]
    /\ functionCall.result.reason = "opportunistic"

\* C25: two calls on one engine with identical inputs, whose clock readings fall
\* in the same window floor(now / 3000), return the same action.
C25_SameWindowSameAction ==
    (/\ functionCall.fn = "makeDecision"
     /\ functionCall.previous.fn = "makeDecision"
     /\ functionCall.previous.inputs = functionCall.inputs
     /\ functionCall.previous.clock \div DECISION_WINDOW = functionCall.clock \div DECISION_WINDOW)
       => functionCall.result.action = functionCall.previous.result.action

\* C24: in every BUY and SELL branch the engine's last-trade time is set to the
\* logical timestamp of the decision, the slot the orchestrator is processing,
\* and not to a clock value read inside the decision step: after a trading
\* decision in slot s, lastTradeTime = s.
C24_TradeTimeIsSlot ==
    (lastEvent = "makeDecision" /\ state.latestDecision.action \in {"BUY", "SELL"})
       => aiEngine.lastTradeTime = decidedSlots[Len(decidedSlots)]

\* C27: once the cleanup of the hook has run there is no further price tick,
\* decision or trade, whether it ran before the first aligned slot timer fired
\* or after the repeating decision interval had been started: from then on only
\* the clock moves.
C27_NothingAfterCleanup ==
    [](lastEvent = "cleanup"
          => [](/\ lastEvent \in {"cleanup", "clock"}
                /\ ledgerCall = NoCall))

\* the hook was stopped with its decision interval running, and the time of the
\* next slot and of the next price update has passed
C27_Witness ==
    /\ Pending = {}
    /\ Len(decidedSlots) > 0
    /\ lastEvent = "clock"
    /\ now >= decidedSlots[Len(decidedSlots)] + DECISION_INTERVAL + UPDATE_INTERVAL

\* C28: handling a price update changes only currentPrice, priceHistory,
\* indicators, position, unrealizedPnL and isLoading in the published state: it
\* leaves latestDecision, accountState and the trade list as they were, never
\* calls the decision engine and never changes the ledger.
C28_PriceUpdateFrame ==
    [][lastEvent' = "updatePrice"
       => /\ state'.latestDecision = state.latestDecision
          /\ state'.accountState = state.accountState
          /\ state'.trades = state.trades
          /\ ledgerCall' = NoCall
          /\ UNCHANGED <<aiEngine, accountState, tradeCounter, lastProcessedSlotRef,
                         decidedSlots>>]_vars

\* a price update arrived with a decision published, a trade listed and a
\* position open, and moved the price
C28_Witness ==
    /\ lastEvent = "updatePrice"
    /\ state.latestDecision # Null
    /\ Len(state.trades) > 0
    /\ state.position.type = "LONG"
    /\ state.currentPrice # state.position.entryPrice
    /\ state.unrealizedPnL # 0

\* C30: in every reachable state the timestamps of the candles a LivePriceEngine
\* stores are strictly increasing, the first candle finalized after construction
\* included, whose timestamp is of the constructor's reading of the clock while
\* those of the seeded history are of the later reading of initializeHistory.
C30_TimestampsIncrease ==
    \A e \in {priceEngine, priceEngine2} \ {NotConstructed} :
       \A i \in 1..(Len(e.priceHistory) - 1) :
          e.priceHistory[i].timestamp < e.priceHistory[i + 1].timestamp

\* C29: when the fetch of a tick of the real price engine fails, the current
\* price, the candle in progress, lastCandleTimestamp and the candle history are
\* as they were, no update is emitted to the subscribers, and the interval goes
\* on: later ticks are attempted.
C29_FailedFetchChangesNothing ==
    [][(lastEvent' = "updatePrice" /\ functionCall'.fetched = Undefined)
       => /\ priceEngine'.currentPrice = priceEngine.currentPrice
          /\ priceEngine'.currentOHLC = priceEngine.currentOHLC
          /\ priceEngine'.lastCandleTimestamp = priceEngine.lastCandleTimestamp
          /\ priceEngine'.priceHistory = priceEngine.priceHistory
          /\ functionCall'.emitted = Undefined
          /\ timers'.price = Some(now + REAL_UPDATE_INTERVAL)]_vars

\* a fetch failed in a new minute, after a fetch that had moved the price: the
\* candle of the minute before is still in progress
C29_Witness ==
    /\ lastEvent = "updatePrice"
    /\ functionCall.fetched = Undefined
    /\ priceEngine.currentPrice # Dollars(REAL_DEFAULT_PRICE_DOLLARS)
    /\ priceEngine.currentOHLC.close = priceEngine.currentPrice
    /\ Floor(now, ONE_MINUTE) > priceEngine.lastCandleTimestamp

\* low <= open <= high and low <= close <= high
IsWellFormed(c) == c.low <= c.open /\ c.open <= c.high /\ c.low <= c.close /\ c.close <= c.high

\* the tick that took the engine from e to f started a candle at the new price,
\* and closed the finalized candle at that price
StartedAtNewPrice(e, f) ==
    (e # NotConstructed /\ f.lastCandleTimestamp # e.lastCandleTimestamp)
       => /\ f.currentOHLC.open = f.currentPrice
          /\ f.currentOHLC.high = f.currentPrice
          /\ f.currentOHLC.low = f.currentPrice
          /\ f.currentOHLC.close = f.currentPrice
          /\ Len(f.priceHistory) = Len(e.priceHistory) + 1
          /\ f.priceHistory[Len(f.priceHistory)].close = f.currentPrice
          /\ f.priceHistory[Len(f.priceHistory)].timestamp = e.lastCandleTimestamp

\* C31: after every tick every candle of the history of a LivePriceEngine and
\* its candle in progress have low <= open <= high and low <= close <= high; a
\* candle started at a minute boundary has open = high = low = close = the new
\* price of the tick, and that price is the close of the candle the tick
\* finalized.
C31_CandlesWellFormed ==
    /\ [](\A e \in {priceEngine, priceEngine2} \ {NotConstructed} :
             /\ IsWellFormed(e.currentOHLC)
             /\ \A i \in 1..Len(e.priceHistory) : IsWellFormed(e.priceHistory[i]))
    /\ [][/\ StartedAtNewPrice(priceEngine, priceEngine')
          /\ StartedAtNewPrice(priceEngine2, priceEngine2')]_vars

\* a tick has crossed the minute: it finalized a candle that had moved, at the
\* price the new candle starts at
C31_Witness ==
    /\ lastEvent = "updatePrice"
    /\ Len(priceEngine.priceHistory) = HISTORY_CANDLES + 1
    /\ priceEngine.lastCandleTimestamp = now
    /\ priceEngine.currentOHLC = Flat(priceEngine.currentPrice)
    /\ priceEngine.priceHistory[HISTORY_CANDLES + 1].close = priceEngine.currentPrice
    /\ priceEngine.priceHistory[HISTORY_CANDLES + 1].open # priceEngine.currentPrice
    /\ priceEngine.priceHistory[HISTORY_CANDLES + 1].low
          < priceEngine.priceHistory[HISTORY_CANDLES + 1].high

\* C32: the candle history of a LivePriceEngine never holds more than 500
\* candles; when the candle a tick finalizes would exceed that, exactly the
\* oldest candle is evicted and the others keep their order.
C32_RetentionBound ==
    /\ [](Len(priceEngine.priceHistory) <= 500)
    /\ [][lastEvent' = "updatePrice"
          => LET h == priceEngine.priceHistory
                 k == priceEngine'.priceHistory
             IN IF Len(h) < 500
                THEN Len(k) = Len(h) + 1 /\ SubSeq(k, 1, Len(h)) = h
                ELSE Len(k) = 500 /\ SubSeq(k, 1, 499) = Tail(h)]_vars

\* the history is full and its oldest candle is no longer the first seeded one
C32_Witness ==
    /\ Len(priceEngine.priceHistory) = MAX_CANDLES
    /\ priceEngine.tickCount > MAX_CANDLES - HISTORY_CANDLES
    /\ priceEngine.priceHistory[1].timestamp
          = priceEngine.lastCandleTimestamp - MAX_CANDLES * ONE_MINUTE
    /\ priceEngine.priceHistory[1].timestamp > 0 - HISTORY_CANDLES * ONE_MINUTE

\* C33: the ledger keeps its trades only up to a bounded history window, the
\* oldest being evicted first as trades are appended: the sequence is never
\* longer than the window, which for the histories of this program is 500.
C33_TradesBounded == Len(accountState.trades) <= MAX_CANDLES

\* C34: RealPriceEngine keeps only the last 1000 candles: after an update tick
\* that finalizes a candle its history holds at most 1000 entries, whatever the
\* number of candles of the initial load.
C34_RealRetentionBound ==
    (/\ lastEvent = "updatePrice"
     /\ functionCall.emitted # Undefined
     /\ functionCall.emitted[1].isNewCandle)
       => Len(priceEngine.priceHistory) <= 1000

\* C35: while the session runs, every slot boundary (multiple of 3000 ms) that
\* passes after the first aligned start is processed: the decision logic runs
\* exactly once for each slot and skips none, the timer callbacks firing late
\* by less than one interval.
C35_NoSlotSkipped ==
    \A i \in 1..(Len(decidedSlots) - 1) : decidedSlots[i + 1] = decidedSlots[i] + 3000

RECURSIVE BuyFees(_, _)
\* the sum of the fees of the BUY trades after the first n of the sequence
BuyFees(trades, n) ==
    IF n >= Len(trades) THEN 0
    ELSE (IF trades[Len(trades)].type = "BUY" THEN trades[Len(trades)].fee ELSE 0)
         + BuyFees(SubSeq(trades, 1, Len(trades) - 1), n)

\* C36: from construction, which seeds 6 trades and adds their profit to the
\* balance and to realizedPnL, and after any accepted and rejected operations:
\* balance = initialBalance + realizedPnL - (the fees of the BUY trades
\* executeBuy accepted) - entryPrice * quantity held, the last term being 0
\* when no position is held.
C36_Conservation ==
    accountState.balance
       = Money(200) + accountState.realizedPnL - BuyFees(accountState.trades, 6)
         - (IF accountState.position.type = "NONE" THEN 0
            ELSE Times(accountState.position.entryPrice, accountState.position.quantity))

\* after a BUY and the sale of a part of the position
C36_Witness ==
    /\ ledgerCall.op = "executeSell"
    /\ ledgerCall.result # Null
    /\ accountState.position.type = "LONG"
    /\ accountState.position.quantity > 0
    /\ accountState.realizedPnL # NewExecutionSimulator(Money(200), 0).accountState.realizedPnL
    /\ accountState.position.quantity < ledgerCall.pre.accountState.position.quantity
    /\ Len(accountState.trades) = 6 + 2

\* C37: in the session, whatever prices of the clamp [4800, 5400] the ticks
\* bring, no call of the ledger returns null; a BUY decision taken while flat
\* opens a position and a SELL decision taken while LONG closes it; and the
\* balance a SELL leaves is at least the balance the BUY of that round trip
\* found (the balance of the step plus the cost and the fee of that BUY).
C37_NoOrderRejected ==
    /\ [](ledgerCall # NoCall => ledgerCall.result # Null)
    /\ [][lastEvent' = "makeDecision" =>
             /\ state'.latestDecision.action = "BUY" /\ accountState.position.type = "NONE"
                   => /\ ledgerCall' # NoCall
                      /\ ledgerCall'.op = "executeBuy"
                      /\ ledgerCall'.result # Null
                      /\ accountState'.position.type = "LONG"
             /\ state'.latestDecision.action = "SELL" /\ accountState.position.type = "LONG"
                   => /\ ledgerCall' # NoCall
                      /\ ledgerCall'.op = "executeSell"
                      /\ ledgerCall'.result # Null
                      /\ accountState'.position.type = "NONE"
                      /\ accountState'.balance >=
                            accountState.balance
                            + Times(accountState.position.entryPrice, accountState.position.quantity)
                            + FeeOf(Times(accountState.position.entryPrice,
                                          accountState.position.quantity))]_vars

\* the BUY of a second round trip is executed, on a balance above the initial one
C37_Witness ==
    /\ lastEvent = "makeDecision"
    /\ ledgerCall # NoCall
    /\ ledgerCall.op = "executeBuy"
    /\ ledgerCall.result # Null
    /\ Len(accountState.trades) = 6 + 3
    /\ ledgerCall.pre.accountState.balance
          > NewExecutionSimulator(Money(INITIAL_BALANCE), 0).accountState.balance

\* C38: in the session, whatever prices of the clamp [4800, 5400] the ticks
\* bring, the unrealized PnL the session publishes and decides on lies in
\* [-12, 12]; no decision is a stop loss; every SELL the ledger executes was
\* decided by the profit target.
C38_StopLossNeverSells ==
    /\ state.unrealizedPnL >= 0 - Money(12)
    /\ state.unrealizedPnL <= Money(12)
    /\ getUnrealizedPnL(accountState, priceEngine.currentPrice) = state.unrealizedPnL
    /\ state.latestDecision # Null => state.latestDecision.reason # "stop_loss"
    /\ ledgerCall # NoCall /\ ledgerCall.op = "executeSell"
          => state.latestDecision.reason = "take_profit"

\* a position bought at 5400 is held at 4800, $12 down
C38_Witness ==
    /\ lastEvent = "makeDecision"
    /\ accountState.position.type = "LONG"
    /\ accountState.position.quantity = DEFAULT_POSITION_SIZE
    /\ accountState.position.entryPrice = Dollars(MAX_PRICE_DOLLARS)
    /\ priceEngine.currentPrice = Dollars(MIN_PRICE_DOLLARS)
    /\ state.unrealizedPnL = 0 - Money(12)
    /\ state.latestDecision.action = "HOLD"
    /\ state.latestDecision.reason = "holding"

\* C39: after every price tick the candle history of the published state is
\* the history of the price engine: as many candles, with the same timestamps
\* and the same open, high, low and close.
C39_PublishedHistoryIsEngineHistory ==
    lastEvent = "updatePrice" =>
        /\ Len(state.priceHistory) = Len(priceEngine.priceHistory)
        /\ \A i \in 1..Len(state.priceHistory) :
              /\ state.priceHistory[i].timestamp = priceEngine.priceHistory[i].timestamp
              /\ state.priceHistory[i].open = priceEngine.priceHistory[i].open
              /\ state.priceHistory[i].high = priceEngine.priceHistory[i].high
              /\ state.priceHistory[i].low = priceEngine.priceHistory[i].low
              /\ state.priceHistory[i].close = priceEngine.priceHistory[i].close

\* C40: the engine of real prices has at most one interval that setInterval
\* created and clearInterval has not cleared; and while the last call of the
\* client is stop(), it has none, and no callback runs updatePrice.
C40_StopEndsPolling ==
    /\ Cardinality(timers.intervals) <= 1
    /\ functionCall.fn = "stop" => timers.intervals = {} /\ lastEvent # "updatePrice"

====
